---- MODULE Spec2Model ----
(***************************************************************************)
(* Model of the adaptive Node (package Flow, node.go) and of the Flow      *)
(* orchestrators (package Flow, flow.go; package goflow, flow/flow.go).    *)
(*                                                                         *)
(* Spec     : one call of Node.Run on a node whose parameters and user     *)
(*            functions are drawn in Init; the caller's thread and the     *)
(*            goroutines of runBatchParallel are separate processes.       *)
(* SpecRetry: one call of Node.Run in retry mode, with up to MaxAttempts    *)
(*            attempts and the backoff sleeps between them.                *)
(* SpecFlow : graph construction with Next, then Flow.Run, called once and *)
(*            then once more with a fresh SharedState.                     *)
(***************************************************************************)
EXTENDS Integers, Sequences, FiniteSets, TLC

\* ---------------------------------------------------------------- bounds
MaxItems == 2
MaxRetries == 2
MaxLimit == 1
MaxBuildOps == 3
MaxSteps == 3
MaxAttempts == 4

\* ------------------------------------------------------------- constants
DefaultAction == "default"
BatchCompleteAction == "batch_complete"
BatchResultsKey == "batch_results"

\* A Go interface{} that may be nil: <<>> is nil, <<v>> holds v.
Nil == <<>>
Some(v) == <<v>>

\* The empty map (make(map[string]interface{})).
EmptyMap == <<>>

Iota(n) == [i \in 1..n |-> i]

\* interface{} values an exec function returns in single/retry mode
StrVal(s) == [kind |-> "str", s |-> s, i |-> 0]
IntVal(i) == [kind |-> "int", s |-> "", i |-> i]

\* ------------------------------------------------------------- variables
VARIABLES
    params,      \* Node.params: map from the present keys to their values
    hasExec,     \* Node.execFunc != nil
    hasPrep,     \* Node.prepFunc != nil
    hasPost,     \* Node.postFunc != nil
    shared,      \* SharedState.data
    status,      \* of the Run call: idle, running, returned, panicked, crashed
    pc,          \* position of the thread that called Run
    mode,        \* the run* method Run dispatched to
    label,       \* the string Run returned
    prepResult,  \* local prepResult
    execResult,  \* local execResult
    attempt,     \* loop variable attempt of the caller's thread
    idx,         \* position of the range loop over items
    items,       \* local items
    results,     \* local results
    limit,       \* cap(sem)
    sem,         \* len(sem)
    wg,          \* the WaitGroup counter
    wpc,         \* position of each goroutine
    wattempt,    \* loop variable attempt of each goroutine
    prepCalls,   \* invocations of prepFunc
    postCalls,   \* invocations of postFunc
    execCalls,   \* invocations of execFunc
    execFails,   \* invocations of execFunc that returned an error
    itemCalls,   \* invocations of execFunc per batch item
    itemFails,   \* invocations of execFunc per batch item that returned an error
    sleeps,      \* calls of time.Sleep
    lastSleep,   \* the last call of time.Sleep: Nil or Some([k, base, delay])
    callLog      \* the calls of the user functions in single and retry mode, with arguments

nodeVars == <<params, hasExec, hasPrep, hasPost, shared, status, pc, mode,
              label, prepResult, execResult, attempt, idx, items, results,
              limit, sem, wg, wpc, wattempt, prepCalls, postCalls,
              execCalls, execFails, itemCalls, itemFails, sleeps, lastSleep, callLog>>

\* the node's variables apart from the SharedState
nodeLocal == <<params, hasExec, hasPrep, hasPost, status, pc, mode,
               label, prepResult, execResult, attempt, idx, items, results,
               limit, sem, wg, wpc, wattempt, prepCalls, postCalls,
               execCalls, execFails, itemCalls, itemFails, sleeps, lastSleep, callLog>>

VARIABLES
    impl,        \* which orchestrator: "Flow" (package Flow) or "goflow" (package goflow)
    succ,        \* successors of every node: a map from action to node
    nparams,     \* params of every node
    fparams,     \* the flow's own params: Nil is the nil map
    startNode,   \* Flow.startNode: Nil or Some(node)
    sinks,       \* the objects a WarningCollector is attached to
    warnings,    \* WarningCollector.warnings
    buildOps,    \* number of construction calls made so far
    fstatus,     \* of Flow.Run: build, running, returned
    curr,        \* local curr of Flow.Run: Nil or Some(node)
    lastAction,  \* local lastAction of Flow.Run
    steps,       \* iterations of the loop of Flow.Run so far
    ran,         \* the unit that ran last, its label and its mode: Nil or Some(record)
    flabel,      \* the string Flow.Run returned
    trace,       \* the units this call of Flow.Run executed, with label and params
    first,       \* the trace and result of the first call of Flow.Run: Nil or Some(record)
    handoffs     \* what Flow.Run left behind each time it moved on from a unit

flowVars == <<impl, succ, nparams, fparams, startNode, sinks, warnings, buildOps,
              fstatus, curr, lastAction, steps, ran, flabel, trace, first, handoffs>>

\* package goflow's typed nodes and flows, and the lock of SharedState
VARIABLES
    gcfg,         \* the fields of the object under test and what its user functions do
    gctx,         \* the context.Context handed to RunAsync: "live" or "done"
    gpc,          \* position of the caller of Run / RunAsync
    gcalls,       \* calls of Run / RunAsync made so far
    gret,         \* what the call returned: Nil or Some([label, err])
    currentRetry, \* RetryNode.currentRetry
    observed,     \* what execFunc saw, call by call: the attempt counter (retry nodes), the item (BatchNode)
    execCtx,      \* the state of the context when execAsyncFunc returned: Nil or Some(state)
    gitems,       \* local items of ParallelBatchNode.RunAsync
    gresults,     \* local results of ParallelBatchNode.RunAsync
    errCh,        \* the buffer of the channel errCh
    gwpc,         \* position of each goroutine started by RunAsync
    grecv,        \* loop variable i of the receiving loop
    gposted,      \* the results slice postFunc was called with: Nil or Some(slice)
    gparams,      \* BaseNode.params of every node of the flow
    gruns,        \* the units executed by _orchAsync: batch, node and the params it ran with
    mu,           \* SharedState.mu: Nil or Some(holder)
    slocal        \* local existing of SharedState.Append, per caller

goVars == <<gcfg, gctx, gpc, gcalls, gret, currentRetry, observed, execCtx, gitems,
            gresults, errCh, gwpc, grecv, gposted, gparams, gruns, mu, slocal>>

vars == <<nodeVars, flowVars, goVars>>

\* ------------------------------------------------- inputs drawn in Init
BoolOpt == {Nil, Some(TRUE), Some(FALSE)}
IntOpt(hi) == {Nil} \cup {Some(i) : i \in -1..hi}

\* "data": absent, a slice of n items, or one value that is no slice
SliceData(n) == [kind |-> "slice", val |-> Iota(n)]
ScalarData == [kind |-> "scalar", val |-> 1]
DataOpt == {Nil} \cup {Some(SliceData(n)) : n \in 0..MaxItems} \cup {Some(ScalarData)}

MapOf(k, o) == IF o = Nil THEN EmptyMap ELSE (k :> o[1])

\* "retry_delay": absent or a positive time.Duration (in nanoseconds)
BaseDelay == 100
DelayOpt == {Nil, Some(BaseDelay)}

ParamsChoices ==
    { MapOf("batch", b) @@ MapOf("parallel", p) @@ MapOf("data", d)
        @@ MapOf("retries", r) @@ MapOf("parallel_limit", l)
        @@ MapOf("retry_delay", rd) :
      b \in BoolOpt, p \in BoolOpt, d \in DataOpt,
      r \in IntOpt(MaxRetries), l \in IntOpt(MaxLimit), rd \in DelayOpt }

\* what the user functions return
PrepValues == {1, 2}
ExecValues == {StrVal("ok"), StrVal(""), IntVal(7)}
PostLabels == {"posted", ""}

\* the pure exec function of a batch: x |-> x * 2
F(x) == x * 2

\* ------------------------------------------------------ pure functions
GetParam(p, key) == IF key \in DOMAIN p THEN Some(p[key]) ELSE Nil

getIntParam(p, key) == IF key \in DOMAIN p THEN p[key] ELSE 0

getBoolParam(p, key) == IF key \in DOMAIN p THEN p[key] ELSE FALSE

getDurationParam(p, key) == IF key \in DOMAIN p THEN p[key] ELSE 0

convertToSlice(d) == IF d.kind = "slice" THEN d.val ELSE <<d.val>>

\* fmt.Sprintf("%v", i) for the integers the model uses
Sprintf(i) ==
    CASE i = 0 -> "0" [] i = 1 -> "1" [] i = 2 -> "2" [] i = 3 -> "3"
      [] i = 4 -> "4" [] i = 5 -> "5" [] i = 6 -> "6" [] i = 7 -> "7"
      [] i = 8 -> "8" [] OTHER -> "9"

\* a result that is no string yields the empty label
ToLabel_Raw(v) == v.s

\* the tail of runSingle and runWithRetry: string results pass, others are formatted
ToLabel(v) == IF v.kind = "str" THEN v.s ELSE Sprintf(v.i)

\* Run taking an empty "data" for an absent one
RunTarget_EmptyIsNil(p) ==
    IF getBoolParam(p, "batch") /\ GetParam(p, "data") # Nil
       /\ convertToSlice(p["data"]) # <<>>
    THEN "runBatch"
    ELSE IF getIntParam(p, "retries") > 0 THEN "runWithRetry" ELSE "runSingle"

\* Run checking "retries" before "batch"
RunTarget_RetriesFirst(p) ==
    IF getIntParam(p, "retries") > 0 THEN "runWithRetry"
    ELSE IF getBoolParam(p, "batch") /\ GetParam(p, "data") # Nil
         THEN "runBatch" ELSE "runSingle"

\* Node.Run: which method the call is dispatched to
RunTarget(p) ==
    IF getBoolParam(p, "batch") /\ GetParam(p, "data") # Nil
    THEN "runBatch"
    ELSE IF getIntParam(p, "retries") > 0 THEN "runWithRetry" ELSE "runSingle"

\* Node.runBatch: parallel or sequential
runBatch(p) ==
    IF getBoolParam(p, "parallel") THEN "runBatchParallel" ELSE "runBatchSequential"

\* runBatchParallel: the capacity of the semaphore channel
parallelLimit(p, n) ==
    IF getIntParam(p, "parallel_limit") <= 0 THEN n ELSE getIntParam(p, "parallel_limit")

\* math.Pow(2, float64(attempt))
RECURSIVE Pow2(_)
Pow2(k) == IF k <= 0 THEN 1 ELSE 2 * Pow2(k - 1)

\* secureRandFloat64: a fraction n/d in [0, 1) from crypto/rand, or the
\* fixed 0.05 when rand.Int fails
RandDen == 100
RandValues == {[n |-> 0, d |-> RandDen], [n |-> RandDen \div 2, d |-> RandDen],
               [n |-> RandDen - 1, d |-> RandDen]}
RandFallback == [n |-> 5, d |-> 100]
secureRandFloat64 == RandValues \cup {RandFallback}

\* backoffDelay := time.Duration(float64(retryDelay) * math.Pow(2, float64(attempt)))
backoffDelay(retryDelay, att) == retryDelay * Pow2(att)

\* a jitter of up to the whole backoff
jitter_Full(r, backoff) == (r.n * backoff) \div r.d

\* jitter := time.Duration(rand * float64(backoffDelay) * 0.1), truncated
jitter(r, backoff) == (r.n * backoff) \div (r.d * 10)

\* a sleep after every failed attempt, the last one included
needsSleep_AfterLast(att, retries, retryDelay) == att < retries /\ retryDelay > 0

\* if attempt < retries-1 && retryDelay > 0
needsSleep(att, retries, retryDelay) == att < retries - 1 /\ retryDelay > 0

\* the Sleep calls a failed attempt may make: the empty set when none is due
SleepsAfter(att, retries, retryDelay) ==
    IF needsSleep(att, retries, retryDelay)
    THEN { [k |-> att, base |-> backoffDelay(retryDelay, att),
            delay |-> backoffDelay(retryDelay, att)
                        + jitter(r, backoffDelay(retryDelay, att))] :
           r \in secureRandFloat64 }
    ELSE {}

\* SharedState.Set
Set(s, key, value) == (key :> value) @@ s

\* ------------------------------------------------------------------ Init
\* the locals of a Run call that has not started
NodeLocalIdle ==
    /\ status = "idle"
    /\ pc = "idle"
    /\ mode = "none"
    /\ label = ""
    /\ prepResult = Nil
    /\ execResult = StrVal(DefaultAction)
    /\ attempt = 0
    /\ idx = 1
    /\ items = <<>>
    /\ results = <<>>
    /\ limit = 0
    /\ sem = 0
    /\ wg = 0
    /\ wpc = <<>>
    /\ wattempt = <<>>
    /\ prepCalls = 0
    /\ postCalls = 0
    /\ execCalls = 0
    /\ execFails = 0
    /\ itemCalls = <<>>
    /\ itemFails = <<>>
    /\ sleeps = 0
    /\ lastSleep = Nil
    /\ callLog = <<>>

\* NewSharedState and the locals of a Run call that has not started
NodeIdle ==
    /\ shared = EmptyMap
    /\ NodeLocalIdle

\* ------------------------------------------------------- flow inputs
Nodes == {"n1", "n2"}

\* the action argument of Next, and the labels a unit's user functions return
NextLabels == {"", DefaultAction, "a"}
RetLabels == {"", DefaultAction, "a", "b"}

\* a parameter map that selects parallel batch mode
BatchCfg == ("batch" :> TRUE) @@ ("parallel" :> TRUE) @@ ("data" :> SliceData(2))

\* NewFlow / NewNode / NewBaseNode: empty maps, nothing attached, nothing run
FlowIdle ==
    /\ succ = [n \in Nodes |-> EmptyMap]
    /\ nparams = [n \in Nodes |-> EmptyMap]
    /\ fparams = Some(EmptyMap)
    /\ startNode = Nil
    /\ sinks = {}
    /\ warnings = <<>>
    /\ buildOps = 0
    /\ fstatus = "build"
    /\ curr = Nil
    /\ lastAction = ""
    /\ steps = 0
    /\ ran = Nil
    /\ flabel = ""
    /\ trace = <<>>
    /\ first = Nil
    /\ handoffs = <<>>

\* nothing of package goflow is in use
GoIdle ==
    /\ gcfg = EmptyMap
    /\ gctx = "live"
    /\ gpc = "idle"
    /\ gcalls = 0
    /\ gret = Nil
    /\ currentRetry = 0
    /\ observed = <<>>
    /\ execCtx = Nil
    /\ gitems = <<>>
    /\ gresults = <<>>
    /\ errCh = <<>>
    /\ gwpc = <<>>
    /\ grecv = 0
    /\ gposted = Nil
    /\ gparams = <<>>
    /\ gruns = <<>>
    /\ mu = Nil
    /\ slocal = <<>>

Init ==
    /\ GoIdle
    /\ params \in ParamsChoices
    /\ hasExec \in BOOLEAN
    /\ hasPrep \in BOOLEAN
    /\ hasPost \in BOOLEAN
    /\ NodeIdle
    /\ impl = "Flow"
    /\ FlowIdle

\* --------------------------------------------------------------- Node.Run
slpVars == <<sleeps, lastSleep>>
callVars == <<prepCalls, postCalls, execCalls, execFails, itemCalls, itemFails, slpVars,
              callLog>>

\* one entry of callLog: the function and the prepare and execute results it was given
Call(fn, prep, exec) == [fn |-> fn, prep |-> prep, exec |-> exec]
cfgVars == <<params, hasExec, hasPrep, hasPost>>
parVars == <<limit, sem, wg, wpc, wattempt>>

\* a batch that goes through the prep phase of the single modes first
runEntry_PrepFirst(m, n) == "prep"

\* where the mode entered by Run begins: the batch modes start with their
\* items, runSingle and runWithRetry with the prep phase
runEntry(m, n) ==
    CASE m = "runBatchSequential" -> "seq"
      [] m = "runBatchParallel" -> IF n = 0 THEN "wait" ELSE "spawn"
      [] OTHER -> "prep"

\* Run: pick the mode from the current params and enter it
Run ==
    /\ status = "idle"
    /\ status' = "running"
    /\ LET t == RunTarget(params)
           m == IF t = "runBatch" THEN runBatch(params) ELSE t
           its == IF t = "runBatch" THEN convertToSlice(params["data"]) ELSE <<>>
           n == Len(its)
       IN /\ mode' = m
          /\ items' = its
          /\ itemCalls' = [i \in 1..n |-> 0]
          /\ itemFails' = [i \in 1..n |-> 0]
          /\ results' = IF m = "runBatchParallel" THEN [i \in 1..n |-> Nil] ELSE <<>>
          /\ limit' = IF m = "runBatchParallel" THEN parallelLimit(params, n) ELSE 0
          /\ wpc' = IF m = "runBatchParallel" THEN [i \in 1..n |-> "new"] ELSE <<>>
          /\ wattempt' = IF m = "runBatchParallel" THEN [i \in 1..n |-> 0] ELSE <<>>
          /\ pc' = runEntry(m, n)
    /\ UNCHANGED <<flowVars, goVars, cfgVars, shared, label, prepResult, execResult, attempt, idx,
                   sem, wg, prepCalls, postCalls, execCalls, execFails, slpVars,
                   callLog>>

\* runSingle / runWithRetry: the prep phase
Prep ==
    /\ status = "running" /\ pc = "prep"
    /\ IF hasPrep
       THEN /\ \E v \in PrepValues : prepResult' = Some(v)
            /\ prepCalls' = prepCalls + 1
            /\ callLog' = Append(callLog, Call("prep", Nil, Nil))
       ELSE UNCHANGED <<prepResult, prepCalls, callLog>>
    /\ pc' = "exec"
    /\ UNCHANGED <<flowVars, goVars, cfgVars, shared, status, mode, label, execResult, attempt, idx,
                   items, results, parVars, postCalls, execCalls, execFails, itemCalls,
                   itemFails, slpVars>>

\* runSingle: the exec phase
ExecSingle ==
    /\ status = "running" /\ pc = "exec" /\ mode = "runSingle"
    /\ IF hasExec
       THEN /\ execCalls' = execCalls + 1
            /\ callLog' = Append(callLog, Call("exec", prepResult, Nil))
            /\ \/ \E r \in ExecValues :
                    /\ execResult' = r
                    /\ pc' = "post"
                    /\ UNCHANGED <<status, execFails>>
               \/ /\ status' = "panicked"
                  /\ pc' = "done"
                  /\ execFails' = execFails + 1
                  /\ UNCHANGED execResult
       ELSE /\ execResult' = StrVal(DefaultAction)
            /\ pc' = "post"
            /\ UNCHANGED <<status, execCalls, execFails, callLog>>
    /\ UNCHANGED <<flowVars, goVars, cfgVars, shared, mode, label, prepResult, attempt, idx, items,
                   results, parVars, prepCalls, postCalls, itemCalls, itemFails, slpVars>>

\* the retry loop giving up one attempt early
retryAttempt_EarlyPanic(att, maxRetries, ok) ==
    IF ok THEN "break"
    ELSE IF att >= maxRetries - 2 THEN "panic" ELSE "continue"

\* the retry loop comparing the last attempt with maxRetries instead of maxRetries-1
retryAttempt_NoPanic(att, maxRetries, ok) ==
    IF ok THEN "break"
    ELSE IF att = maxRetries THEN "panic" ELSE "continue"

\* the retry loop leaving by break after the last failed attempt
retryAttempt_ExhaustedBreaks(att, maxRetries, ok) ==
    IF ok THEN "break"
    ELSE IF att = maxRetries - 1 THEN "break" ELSE "continue"

\* runWithRetry: one iteration of the retry loop
retryAttempt(att, maxRetries, ok) ==
    IF ok THEN "break"
    ELSE IF att = maxRetries - 1 THEN "panic" ELSE "continue"

ExecRetry ==
    /\ status = "running" /\ pc = "exec" /\ mode = "runWithRetry"
    /\ IF attempt >= getIntParam(params, "retries")
       THEN \* the loop ends without a break
            /\ pc' = "post"
            /\ UNCHANGED <<status, attempt, execResult, execCalls, execFails, slpVars,
                           callLog>>
       ELSE IF hasExec
       THEN /\ execCalls' = execCalls + 1
            /\ callLog' = Append(callLog, Call("exec", prepResult, Nil))
            /\ \E ok \in BOOLEAN :
                 LET next == retryAttempt(attempt, getIntParam(params, "retries"), ok)
                     sl == IF ok THEN {}
                           ELSE SleepsAfter(attempt, getIntParam(params, "retries"),
                                            getDurationParam(params, "retry_delay"))
                 IN /\ execFails' = IF ok THEN execFails ELSE execFails + 1
                    /\ IF sl = {} THEN UNCHANGED slpVars
                       ELSE /\ sleeps' = sleeps + 1
                            /\ \E z \in sl : lastSleep' = Some(z)
                    /\ CASE next = "break" ->
                           /\ \E r \in ExecValues : execResult' = r
                           /\ pc' = "post"
                           /\ UNCHANGED <<status, attempt>>
                      [] next = "panic" ->
                           /\ status' = "panicked"
                           /\ pc' = "done"
                           /\ UNCHANGED <<execResult, attempt>>
                      [] OTHER ->
                           /\ attempt' = attempt + 1
                           /\ UNCHANGED <<status, pc, execResult>>
       ELSE /\ execResult' = StrVal(DefaultAction)
            /\ pc' = "post"
            /\ UNCHANGED <<status, attempt, execCalls, execFails, slpVars, callLog>>
    /\ UNCHANGED <<flowVars, goVars, cfgVars, shared, mode, label, prepResult, idx, items,
                   results, parVars, prepCalls, postCalls, itemCalls, itemFails>>

\* runSingle / runWithRetry: the post phase and the conversion to a label
Post ==
    /\ status = "running" /\ pc = "post"
    /\ IF hasPost
       THEN /\ \E l \in PostLabels : label' = l
            /\ postCalls' = postCalls + 1
            /\ callLog' = Append(callLog, Call("post", prepResult, Some(execResult)))
       ELSE /\ label' = ToLabel(execResult)
            /\ UNCHANGED <<postCalls, callLog>>
    /\ status' = "returned"
    /\ pc' = "done"
    /\ UNCHANGED <<flowVars, goVars, cfgVars, shared, mode, prepResult, execResult, attempt, idx,
                   items, results, parVars, prepCalls, execCalls, execFails, itemCalls,
                   itemFails, slpVars>>

\* ---------------------------------------------------- runBatchSequential
\* an item whose retries are exhausted is passed over like a successful one
seqItemAttempt_SkipFailed(att, retries, ok) ==
    IF ok THEN "append"
    ELSE IF retries > 0 /\ att < retries - 1 THEN "continue" ELSE "append"

\* the per-item retry loop followed by "if err != nil { panic(err) }"
seqItemAttempt(att, retries, ok) ==
    IF ok THEN "append"
    ELSE IF retries > 0 /\ att < retries - 1 THEN "continue" ELSE "panic"

\* results built in reverse
seqAppend_Prepend(res, v) == <<Some(v)>> \o res

\* results = append(results, result)
seqAppend(res, v) == Append(res, Some(v))

\* results added behind what an earlier run left under the key
storeResults_Accumulate(s, res) ==
    Set(s, BatchResultsKey,
        IF BatchResultsKey \in DOMAIN s THEN s[BatchResultsKey] \o res ELSE res)

\* shared.Set("batch_results", results)
storeResults(s, res) == Set(s, BatchResultsKey, res)

\* an item is skipped when no exec function is set
SeqSkip ==
    /\ status = "running" /\ pc = "seq"
    /\ idx <= Len(items)
    /\ ~hasExec
    /\ idx' = idx + 1
    /\ UNCHANGED <<flowVars, goVars, cfgVars, shared, status, pc, mode, label, prepResult, execResult,
                   attempt, items, results, parVars, callVars>>

\* one invocation of execFunc(item)
SeqExec ==
    /\ status = "running" /\ pc = "seq"
    /\ idx <= Len(items)
    /\ hasExec
    /\ execCalls' = execCalls + 1
    /\ itemCalls' = [itemCalls EXCEPT ![idx] = @ + 1]
    /\ \E ok \in BOOLEAN :
         LET next == seqItemAttempt(attempt, getIntParam(params, "retries"), ok)
             sl == IF ok THEN {}
                   ELSE SleepsAfter(attempt, getIntParam(params, "retries"),
                                    getDurationParam(params, "retry_delay"))
         IN /\ execFails' = IF ok THEN execFails ELSE execFails + 1
            /\ itemFails' = IF ok THEN itemFails ELSE [itemFails EXCEPT ![idx] = @ + 1]
            /\ IF sl = {} THEN UNCHANGED slpVars
               ELSE /\ sleeps' = sleeps + 1
                    /\ \E z \in sl : lastSleep' = Some(z)
            /\ CASE next = "append" ->
                   /\ results' = seqAppend(results, F(items[idx]))
                   /\ idx' = idx + 1
                   /\ attempt' = 0
                   /\ UNCHANGED <<status, pc>>
              [] next = "panic" ->
                   /\ status' = "panicked"
                   /\ pc' = "done"
                   /\ UNCHANGED <<results, idx, attempt>>
              [] OTHER ->
                   /\ attempt' = attempt + 1
                   /\ UNCHANGED <<status, pc, results, idx>>
    /\ UNCHANGED <<flowVars, goVars, cfgVars, shared, mode, label, prepResult, execResult, items,
                   parVars, prepCalls, postCalls, callLog>>

\* after the loop: shared.Set("batch_results", results); return BatchCompleteAction
SeqStore ==
    /\ status = "running" /\ pc = "seq"
    /\ idx > Len(items)
    /\ shared' = storeResults(shared, results)
    /\ label' = BatchCompleteAction
    /\ status' = "returned"
    /\ pc' = "done"
    /\ UNCHANGED <<flowVars, goVars, cfgVars, mode, prepResult, execResult, attempt, idx, items,
                   results, parVars, callVars>>

\* ------------------------------------------------------ runBatchParallel
\* the retry budget shared by all items: failures anywhere count against it
parItemAttempt_SharedBudget(att, retries, ok) ==
    IF ok THEN "store"
    ELSE IF retries > 0 /\ execFails < retries - 1 THEN "continue" ELSE "panic"

\* the per-item retry loop of a goroutine followed by "if err != nil { panic(err) }"
parItemAttempt(att, retries, ok) ==
    IF ok THEN "store"
    ELSE IF retries > 0 /\ att < retries - 1 THEN "continue" ELSE "panic"

\* a result stored at the mirrored position
parStore_Mirrored(res, index, v) == [res EXCEPT ![Len(res) + 1 - index] = Some(v)]

\* results[index] = result
parStore(res, index, v) == [res EXCEPT ![index] = Some(v)]

\* a semaphore that admits one sender too many
semFree_OffByOne(len, cap) == len <= cap

\* sem <- struct{}{} can proceed
semFree(len, cap) == len < cap

Workers == DOMAIN wpc
Executing == {w \in Workers : wpc[w] = "executing"}

\* one iteration of the range loop: wg.Add(1); go func(i, item)
Spawn ==
    /\ status = "running" /\ pc = "spawn"
    /\ idx <= Len(items)
    /\ wg' = wg + 1
    /\ wpc' = [wpc EXCEPT ![idx] = "acquire"]
    /\ idx' = idx + 1
    /\ pc' = IF idx = Len(items) THEN "wait" ELSE "spawn"
    /\ UNCHANGED <<flowVars, goVars, cfgVars, shared, status, mode, label, prepResult, execResult,
                   attempt, items, results, limit, sem, wattempt, callVars>>

\* goroutine: acquire the semaphore and, if set, enter execFunc(data)
WAcquire(w) ==
    /\ w \in Workers
    /\ status = "running"
    /\ wpc[w] = "acquire"
    /\ semFree(sem, limit)
    /\ sem' = sem + 1
    /\ IF hasExec
       THEN /\ wpc' = [wpc EXCEPT ![w] = "executing"]
            /\ execCalls' = execCalls + 1
            /\ itemCalls' = [itemCalls EXCEPT ![w] = @ + 1]
            /\ UNCHANGED execFails
       ELSE /\ wpc' = [wpc EXCEPT ![w] = "release"]
            /\ UNCHANGED <<execCalls, execFails, itemCalls>>
    /\ UNCHANGED <<flowVars, goVars, cfgVars, shared, status, pc, mode, label, prepResult, execResult,
                   attempt, idx, items, results, limit, wg, wattempt, prepCalls,
                   postCalls, itemFails, slpVars, callLog>>

\* goroutine: execFunc(data) returns; store, retry (the next call begins) or panic
WExec(w) ==
    /\ w \in Workers
    /\ status = "running"
    /\ wpc[w] = "executing"
    /\ \E ok \in BOOLEAN :
         LET next == parItemAttempt(wattempt[w], getIntParam(params, "retries"), ok)
             sl == IF ok THEN {}
                   ELSE SleepsAfter(wattempt[w], getIntParam(params, "retries"),
                                    getDurationParam(params, "retry_delay"))
         IN /\ execFails' = IF ok THEN execFails ELSE execFails + 1
            /\ itemFails' = IF ok THEN itemFails ELSE [itemFails EXCEPT ![w] = @ + 1]
            /\ IF sl = {} THEN UNCHANGED slpVars
               ELSE /\ sleeps' = sleeps + 1
                    /\ \E z \in sl : lastSleep' = Some(z)
            /\ CASE next = "store" ->
                   /\ results' = parStore(results, w, F(items[w]))
                   /\ wpc' = [wpc EXCEPT ![w] = "release"]
                   /\ UNCHANGED <<wattempt, execCalls, itemCalls>>
              [] next = "panic" ->
                   /\ wpc' = [wpc EXCEPT ![w] = "panic_release"]
                   /\ UNCHANGED <<results, wattempt, execCalls, itemCalls>>
              [] OTHER ->
                   /\ wattempt' = [wattempt EXCEPT ![w] = @ + 1]
                   /\ execCalls' = execCalls + 1
                   /\ itemCalls' = [itemCalls EXCEPT ![w] = @ + 1]
                   /\ UNCHANGED <<results, wpc>>
    /\ UNCHANGED <<flowVars, goVars, cfgVars, shared, status, pc, mode, label, prepResult, execResult,
                   attempt, idx, items, limit, sem, wg, prepCalls, postCalls,
                   callLog>>

\* a deferred receive that takes nothing out of the channel
semRecv_Leak(len) == len

\* <-sem: one element leaves the buffered channel
semRecv(len) == len - 1

\* goroutine: the deferred <-sem (it also runs while the goroutine panics)
WRelease(w) ==
    /\ w \in Workers
    /\ status = "running"
    /\ wpc[w] \in {"release", "panic_release"}
    /\ sem' = semRecv(sem)
    /\ wpc' = [wpc EXCEPT ![w] = IF wpc[w] = "release" THEN "wgdone" ELSE "panic_wgdone"]
    /\ UNCHANGED <<flowVars, goVars, cfgVars, shared, status, pc, mode, label, prepResult, execResult,
                   attempt, idx, items, results, limit, wg, wattempt, callVars>>

\* goroutine: the deferred wg.Done()
WDone(w) ==
    /\ w \in Workers
    /\ status = "running"
    /\ wpc[w] \in {"wgdone", "panic_wgdone"}
    /\ wg' = wg - 1
    /\ wpc' = [wpc EXCEPT ![w] = IF wpc[w] = "wgdone" THEN "finished" ELSE "panic_exit"]
    /\ UNCHANGED <<flowVars, goVars, cfgVars, shared, status, pc, mode, label, prepResult, execResult,
                   attempt, idx, items, results, limit, sem, wattempt, callVars>>

\* goroutine: the panic leaves the goroutine unrecovered and the process dies
WCrash(w) ==
    /\ w \in Workers
    /\ status \in {"running", "returned"}
    /\ wpc[w] = "panic_exit"
    /\ status' = "crashed"
    /\ UNCHANGED <<flowVars, goVars, cfgVars, shared, pc, mode, label, prepResult, execResult,
                   attempt, idx, items, results, parVars, callVars>>

\* a Wait that returns while one goroutine has not called Done
waitReturns_Early(counter) == counter <= 1

\* wg.Wait() returns when the counter is zero
waitReturns(counter) == counter = 0

\* wg.Wait() returns; shared.Set("batch_results", results); return BatchCompleteAction
Wait ==
    /\ status = "running" /\ pc = "wait"
    /\ waitReturns(wg)
    /\ shared' = storeResults(shared, results)
    /\ label' = BatchCompleteAction
    /\ status' = "returned"
    /\ pc' = "done"
    /\ UNCHANGED <<flowVars, goVars, cfgVars, mode, prepResult, execResult, attempt, idx, items,
                   results, parVars, callVars>>

\* ------------------------------------------------------------------ Next
Next ==
    \/ Run
    \/ Prep
    \/ ExecSingle
    \/ ExecRetry
    \/ Post
    \/ SeqSkip
    \/ SeqExec
    \/ SeqStore
    \/ Spawn
    \/ \E w \in 1..MaxItems : WAcquire(w)
    \/ \E w \in 1..MaxItems : WExec(w)
    \/ \E w \in 1..MaxItems : WRelease(w)
    \/ \E w \in 1..MaxItems : WDone(w)
    \/ \E w \in 1..MaxItems : WCrash(w)
    \/ Wait

Spec == Init /\ [][Next]_vars

\* --------------------------------------------- runBatchParallel on its own
\* params that select the parallel batch mode
ParallelParams ==
    { ("batch" :> TRUE) @@ ("parallel" :> TRUE) @@ ("data" :> SliceData(n))
        @@ ("retries" :> r) @@ ("parallel_limit" :> l) @@ ("retry_delay" :> rd) :
      n \in 0..MaxItems, r \in {0, 2}, l \in 0..MaxLimit, rd \in {0, 1} }

InitParallel ==
    /\ GoIdle
    /\ params \in ParallelParams
    /\ hasExec \in BOOLEAN
    /\ hasPrep = FALSE
    /\ hasPost = FALSE
    /\ NodeIdle
    /\ impl = "Flow"
    /\ FlowIdle

NextParallel ==
    \/ Run
    \/ Spawn
    \/ \E w \in 1..MaxItems : WAcquire(w)
    \/ \E w \in 1..MaxItems : WExec(w)
    \/ \E w \in 1..MaxItems : WRelease(w)
    \/ \E w \in 1..MaxItems : WDone(w)
    \/ \E w \in 1..MaxItems : WCrash(w)
    \/ Wait

\* the Go scheduler runs some runnable goroutine as long as there is one,
\* and an execFunc call returns
SpecParallel == InitParallel /\ [][NextParallel]_vars /\ WF_vars(NextParallel)

\* ------------------------------------ two batch runs on one SharedState
\* params of a batch run without retries, sequential or parallel
RerunParams ==
    { ("batch" :> TRUE) @@ ("parallel" :> par) @@ ("data" :> SliceData(n)) :
      par \in BOOLEAN, n \in 0..MaxItems }

\* a key of the caller's own
UserKey == "user"

InitRerun ==
    /\ GoIdle
    /\ params \in RerunParams
    /\ hasExec \in BOOLEAN
    /\ hasPrep = FALSE
    /\ hasPost = FALSE
    /\ NodeLocalIdle
    /\ shared \in {EmptyMap, (UserKey :> 1)}
    /\ impl = "Flow"
    /\ FlowIdle

\* the caller sets other params and calls Run again with the same SharedState:
\* the locals of the first call are gone, what it stored is remembered
Rerun ==
    /\ status = "returned" /\ steps = 0
    /\ steps' = 1
    /\ handoffs' = <<[mode |-> mode, stored |-> shared[BatchResultsKey]]>>
    /\ params' \in RerunParams
    /\ mode' = "none" /\ label' = ""
    /\ prepResult' = Nil /\ execResult' = StrVal(DefaultAction)
    /\ attempt' = 0 /\ idx' = 1 /\ items' = <<>> /\ results' = <<>>
    /\ limit' = 0 /\ sem' = 0 /\ wg' = 0 /\ wpc' = <<>> /\ wattempt' = <<>>
    /\ prepCalls' = 0 /\ postCalls' = 0 /\ execCalls' = 0 /\ execFails' = 0
    /\ itemCalls' = <<>> /\ itemFails' = <<>>
    /\ sleeps' = 0 /\ lastSleep' = Nil /\ callLog' = <<>>
    /\ UNCHANGED <<goVars, hasExec, hasPrep, hasPost, shared, impl, succ, nparams, fparams,
                   startNode, sinks, warnings, buildOps, fstatus, curr, lastAction, ran,
                   flabel, trace, first>>
    /\ status' = "idle" /\ pc' = "idle"

NextRerun ==
    \/ Run
    \/ SeqSkip
    \/ SeqExec
    \/ SeqStore
    \/ Spawn
    \/ \E w \in 1..MaxItems : WAcquire(w)
    \/ \E w \in 1..MaxItems : WExec(w)
    \/ \E w \in 1..MaxItems : WRelease(w)
    \/ \E w \in 1..MaxItems : WDone(w)
    \/ \E w \in 1..MaxItems : WCrash(w)
    \/ Wait
    \/ Rerun

SpecRerun == InitRerun /\ [][NextRerun]_vars

\* ------------------------------------------------- runWithRetry on its own
\* a node in retry mode: "retries" up to MaxAttempts and a "retry_delay"
RetryDelays == {0, 1, 7, BaseDelay}

RetryParams ==
    { ("retries" :> r) @@ ("retry_delay" :> rd) : r \in 1..MaxAttempts, rd \in RetryDelays }

InitRetry ==
    /\ GoIdle
    /\ params \in RetryParams
    /\ hasExec \in BOOLEAN
    /\ hasPrep \in BOOLEAN
    /\ hasPost \in BOOLEAN
    /\ NodeIdle
    /\ impl = "Flow"
    /\ FlowIdle

NextRetry ==
    \/ Run
    \/ Prep
    \/ ExecRetry
    \/ Post

SpecRetry == InitRetry /\ [][NextRetry]_vars

\* --------------------------------------------------- runSingle on its own
\* params that select neither batch nor retry mode
SingleParams ==
    {EmptyMap, ("retries" :> 0), ("retries" :> -1), ("batch" :> TRUE),
     ("batch" :> FALSE) @@ ("data" :> SliceData(1))}

InitSingle ==
    /\ GoIdle
    /\ params \in SingleParams
    /\ hasExec \in BOOLEAN
    /\ hasPrep \in BOOLEAN
    /\ hasPost \in BOOLEAN
    /\ NodeIdle
    /\ impl = "Flow"
    /\ FlowIdle

NextSingle ==
    \/ Run
    \/ Prep
    \/ ExecSingle
    \/ Post

SpecSingle == InitSingle /\ [][NextSingle]_vars

\* ===================================================== the orchestrators
\* A map read: the entry under key, or Nil
Lookup(m, key) == IF key \in DOMAIN m THEN Some(m[key]) ELSE Nil

\* Node.Next (package Flow): an empty action registers under DefaultAction
nextAction(action) == IF action = "" THEN DefaultAction ELSE action

\* BaseNode.Next (package goflow): an omitted action registers under "default"
goflowNextAction(actions) == IF Len(actions) > 0 THEN actions[1] ELSE "default"

\* getNextNode, both packages: an empty action is looked up as the default one
lookupAction(action) == IF action = "" THEN DefaultAction ELSE action

\* getNextNode trying the default successor before the one of the action
getNextNode_DefaultFirst(successors, action) ==
    IF DefaultAction \in DOMAIN successors THEN Some(successors[DefaultAction])
    ELSE Lookup(successors, lookupAction(action))

\* getNextNode falling back to whatever successor there is
getNextNode_AnyFallback(successors, action) ==
    LET a == lookupAction(action)
    IN IF a \in DOMAIN successors THEN Some(successors[a])
       ELSE IF DOMAIN successors # {}
            THEN Some(successors[CHOOSE k \in DOMAIN successors : TRUE])
            ELSE Nil

\* Flow.getNextNode (package Flow): the successor, else the default successor
getNextNode(successors, action) ==
    LET a == lookupAction(action)
    IN IF a \in DOMAIN successors THEN Some(successors[a])
       ELSE IF a # DefaultAction /\ DefaultAction \in DOMAIN successors
            THEN Some(successors[DefaultAction])
            ELSE Nil

\* hasSuccessors (package goflow)
hasSuccessors(successors) == FALSE

\* Flow.getNextNode (package goflow): GetSuccessor(action)
goflowGetNextNode(successors, action) == Lookup(successors, lookupAction(action))

\* Flow.getNextNode (package goflow): is the "not found" warning raised
goflowWarns(successors, action) ==
    goflowGetNextNode(successors, action) = Nil /\ hasSuccessors(successors)

\* a Warn that never reaches the collector
Warn_Dropped(w, attached, msg) == w

\* BaseNode.Warn: the collector gets the message only when one is attached
Warn(w, attached, msg) == IF attached THEN Append(w, msg) ELSE w

\* Run returning the action as it was looked up
runResult_Normalized(last) == lookupAction(last)

\* Flow.Run: the value returned after the loop
runResult(last) == last

\* the flow's params laid over the node's own instead of replacing them
nodeParams_Merged(own, fp) ==
    IF fp # Nil THEN fp[1] @@ own ELSE own

\* Flow.Run / _orch: the params the current node is given
\* (package Flow skips SetParams when the flow's map is nil)
nodeParams(own, fp) ==
    IF fp # Nil THEN fp[1]
    ELSE IF impl = "Flow" THEN own ELSE EmptyMap

\* the results a batch run without failures stores
batchResults(its) == [i \in 1..Len(its) |-> Some(F(its[i]))]

\* ---------------------------------------------------------- construction
Building == fstatus = "build" /\ buildOps < MaxBuildOps

\* Flow.Start
Start(n) ==
    /\ Building
    /\ startNode' = Some(n)
    /\ buildOps' = buildOps + 1
    /\ UNCHANGED <<nodeVars, goVars, impl, succ, nparams, fparams, sinks, warnings,
                   fstatus, curr, lastAction, steps, ran, flabel, trace, first, handoffs>>

\* Node.Next (package Flow)
NextEdge(n, target, action) ==
    /\ Building /\ impl = "Flow"
    /\ succ' = [succ EXCEPT ![n] = (nextAction(action) :> target) @@ @]
    /\ buildOps' = buildOps + 1
    /\ UNCHANGED <<nodeVars, goVars, impl, nparams, fparams, startNode, sinks, warnings,
                   fstatus, curr, lastAction, steps, ran, flabel, trace, first, handoffs>>

\* BaseNode.Next (package goflow)
GoflowNextEdge(n, target, actions) ==
    /\ Building /\ impl = "goflow"
    /\ LET a == goflowNextAction(actions)
       IN /\ warnings' = IF a \in DOMAIN succ[n]
                         THEN Warn(warnings, n \in sinks, [kind |-> "overwrite", action |-> a])
                         ELSE warnings
          /\ succ' = [succ EXCEPT ![n] = (a :> target) @@ @]
    /\ buildOps' = buildOps + 1
    /\ UNCHANGED <<nodeVars, goVars, impl, nparams, fparams, startNode, sinks,
                   fstatus, curr, lastAction, steps, ran, flabel, trace, first, handoffs>>

\* Node.SetParams on a node of the graph
SetParams(n, p) ==
    /\ Building
    /\ nparams' = [nparams EXCEPT ![n] = p]
    /\ buildOps' = buildOps + 1
    /\ UNCHANGED <<nodeVars, goVars, impl, succ, fparams, startNode, sinks, warnings,
                   fstatus, curr, lastAction, steps, ran, flabel, trace, first, handoffs>>

\* SetParams on the flow itself (Flow embeds a node)
FlowSetParams(fp) ==
    /\ Building
    /\ fparams' = fp
    /\ buildOps' = buildOps + 1
    /\ UNCHANGED <<nodeVars, goVars, impl, succ, nparams, startNode, sinks, warnings,
                   fstatus, curr, lastAction, steps, ran, flabel, trace, first, handoffs>>

\* WithWarningCollector on the flow or on a node (package goflow)
WithWarningCollector(o) ==
    /\ Building /\ impl = "goflow"
    /\ sinks' = sinks \cup {o}
    /\ buildOps' = buildOps + 1
    /\ UNCHANGED <<nodeVars, goVars, impl, succ, nparams, fparams, startNode, warnings,
                   fstatus, curr, lastAction, steps, ran, flabel, trace, first, handoffs>>

\* ------------------------------------------------------------- Flow.Run
\* a second call of Run resuming where the previous call stopped
runStart_Resume(start, left) == IF fstatus = "build" THEN start ELSE left

\* curr := f.startNode
runStart(start, left) == start

\* the labels the functions of unit n can return when it runs with params p:
\* they are deterministic, so a unit that ran in the first call and now runs
\* after the same units, with the same params and a SharedState that started
\* empty again, returns what it returned then
UnitLabels(n, p) ==
    LET k == Len(trace) + 1
    IN IF /\ first # Nil
          /\ k <= Len(first[1].trace)
          /\ trace = SubSeq(first[1].trace, 1, k - 1)
          /\ first[1].trace[k].node = n
          /\ first[1].trace[k].cfg = p
       THEN {first[1].trace[k].label}
       ELSE RetLabels

\* entry of Flow.Run, the first call and a second one with a fresh SharedState
FlowRun ==
    /\ \/ fstatus = "build"
       \/ fstatus = "returned" /\ first = Nil
    /\ fstatus' = "running"
    /\ curr' = runStart(startNode, curr)
    /\ lastAction' = ""
    /\ shared' = EmptyMap
    /\ steps' = 0
    /\ ran' = Nil
    /\ trace' = <<>>
    /\ first' = IF fstatus = "returned"
                THEN Some([trace |-> trace, result |-> flabel])
                ELSE first
    /\ UNCHANGED <<nodeLocal, goVars, impl, succ, nparams, fparams, startNode, sinks,
                   warnings, buildOps, flabel, handoffs>>

\* one iteration: SetParams, Run of the current node, getNextNode
FlowStep ==
    /\ fstatus = "running"
    /\ curr # Nil
    /\ steps < MaxSteps
    /\ LET n == curr[1]
           p == nodeParams(nparams[n], fparams)
           m == IF impl = "goflow" THEN "Run"
                ELSE IF RunTarget(p) = "runBatch" THEN runBatch(p) ELSE RunTarget(p)
           batch == m \in {"runBatchParallel", "runBatchSequential"}
       IN /\ nparams' = [nparams EXCEPT ![n] = p]
          /\ \E l \in (IF batch THEN {BatchCompleteAction} ELSE UnitLabels(n, p)) :
               /\ lastAction' = l
               /\ ran' = Some([node |-> n, label |-> l, mode |-> m,
                               cfg |-> p, own |-> nparams[n]])
               /\ trace' = Append(trace, [node |-> n, label |-> l, cfg |-> p])
               /\ IF impl = "Flow"
                  THEN /\ curr' = getNextNode(succ[n], l)
                       /\ UNCHANGED warnings
                  ELSE /\ curr' = goflowGetNextNode(succ[n], l)
                       /\ warnings' =
                            IF goflowWarns(succ[n], l)
                            THEN Warn(warnings, "flow" \in sinks,
                                      [kind |-> "not_found", action |-> lookupAction(l)])
                            ELSE warnings
          /\ shared' = IF batch
                       THEN Set(shared, BatchResultsKey, batchResults(convertToSlice(p["data"])))
                       ELSE shared
    /\ steps' = steps + 1
    /\ UNCHANGED <<nodeLocal, goVars, impl, succ, fparams, startNode, sinks, buildOps,
                   fstatus, flabel, first, handoffs>>

\* a loop that may stop while a successor is waiting
loopEnds_Anywhere(c) == TRUE

\* for curr != nil: the loop ends when there is no next node
loopEnds(c) == c = Nil

\* the loop ends: return lastAction
FlowReturn ==
    /\ fstatus = "running"
    /\ loopEnds(curr)
    /\ flabel' = runResult(lastAction)
    /\ fstatus' = "returned"
    /\ UNCHANGED <<nodeVars, goVars, impl, succ, nparams, fparams, startNode, sinks,
                   warnings, buildOps, curr, lastAction, steps, ran, trace, first, handoffs>>

InitFlow ==
    /\ GoIdle
    /\ params = EmptyMap
    /\ hasExec = FALSE
    /\ hasPrep = FALSE
    /\ hasPost = FALSE
    /\ NodeIdle
    /\ impl \in {"Flow", "goflow"}
    /\ FlowIdle

NextFlow ==
    \/ \E n \in Nodes : Start(n)
    \/ \E n \in Nodes, t \in Nodes, a \in NextLabels : NextEdge(n, t, a)
    \/ \E n \in Nodes, t \in Nodes, a \in {<<>>} \cup {<<l>> : l \in NextLabels} :
         GoflowNextEdge(n, t, a)
    \/ \E n \in Nodes : SetParams(n, BatchCfg)
    \/ \E fp \in {Nil, Some(BatchCfg)} : FlowSetParams(fp)
    \/ \E o \in Nodes \cup {"flow"} : WithWarningCollector(o)
    \/ FlowRun
    \/ FlowStep
    \/ FlowReturn

SpecFlow == InitFlow /\ [][NextFlow]_vars

\* ---------------------------------------- Flow.Run on a graph that is given
\* every node has no successor or one, under the default label or under "a"
LoopGraphs ==
    [Nodes -> {EmptyMap} \cup {(l :> t) : l \in {DefaultAction, "a"}, t \in Nodes}]

InitLoop ==
    /\ GoIdle
    /\ params = EmptyMap
    /\ hasExec = FALSE
    /\ hasPrep = FALSE
    /\ hasPost = FALSE
    /\ NodeIdle
    /\ impl \in {"Flow", "goflow"}
    /\ succ \in LoopGraphs
    /\ nparams = [n \in Nodes |-> EmptyMap]
    /\ fparams = Some(EmptyMap)
    /\ startNode \in {Nil} \cup {Some(n) : n \in Nodes}
    /\ sinks = {}
    /\ warnings = <<>>
    /\ buildOps = 0
    /\ fstatus = "build"
    /\ curr = Nil
    /\ lastAction = ""
    /\ steps = 0
    /\ ran = Nil
    /\ flabel = ""
    /\ trace = <<>>
    /\ first = Nil
    /\ handoffs = <<>>

NextLoop ==
    \/ FlowRun
    \/ FlowStep
    \/ FlowReturn

\* the calling thread keeps running: a call that can be made is made, an
\* iteration that can run runs, and a loop that has ended returns
SpecLoop ==
    InitLoop /\ [][NextLoop]_vars
    /\ WF_vars(FlowRun) /\ WF_vars(FlowStep) /\ WF_vars(FlowReturn)

\* ------------------------------------- Flow.Run over units that really run
\* Flow.Run of package Flow on the chain n1 -> n2, every unit executed by the
\* steps of Node.Run, goroutines included
SeqCfg == ("batch" :> TRUE) @@ ("data" :> SliceData(1))
RetryCfg == ("retries" :> 2)
ChainCfgs == {EmptyMap, BatchCfg, SeqCfg, RetryCfg}

InitChain ==
    /\ GoIdle
    /\ params = EmptyMap
    /\ hasExec \in BOOLEAN
    /\ hasPrep = FALSE
    /\ hasPost = FALSE
    /\ NodeIdle
    /\ impl = "Flow"
    /\ succ = [n \in Nodes |-> IF n = "n1" THEN (DefaultAction :> "n2") ELSE EmptyMap]
    /\ nparams \in [Nodes -> ChainCfgs]
    /\ fparams \in {Nil} \cup {Some(c) : c \in ChainCfgs}
    /\ startNode = Some("n1")
    /\ sinks = {}
    /\ warnings = <<>>
    /\ buildOps = 0
    /\ fstatus = "running"
    /\ curr = Some("n1")
    /\ lastAction = ""
    /\ steps = 0
    /\ ran = Nil
    /\ flabel = ""
    /\ trace = <<>>
    /\ first = Nil
    /\ handoffs = <<>>

\* the loop head: curr.SetParams(params), then curr.Run(shared) is entered
ChainEnter ==
    /\ fstatus = "running" /\ curr # Nil /\ status = "idle"
    /\ steps < MaxSteps
    /\ LET n == curr[1]
           p == nodeParams(nparams[n], fparams)
       IN /\ params' = p
          /\ nparams' = [nparams EXCEPT ![n] = p]
    /\ fstatus' = "inunit"
    /\ UNCHANGED <<goVars, hasExec, hasPrep, hasPost, shared, status, pc, mode, label, prepResult,
                   execResult, attempt, idx, items, results, parVars, callVars,
                   impl, succ, fparams, startNode, sinks, warnings, buildOps, curr,
                   lastAction, steps, ran, flabel, trace, first, handoffs>>

\* what the unit leaves behind when its Run has returned
Handoff ==
    [node |-> curr[1], mode |-> mode, status |-> status, workers |-> wpc,
     wg |-> wg, stored |-> BatchResultsKey \in DOMAIN shared]

\* curr.Run(shared) has returned: lastAction is set and getNextNode picks the
\* next unit; the locals of the Run call are gone
ChainAdvance ==
    /\ fstatus = "inunit" /\ status = "returned"
    /\ lastAction' = label
    /\ curr' = getNextNode(succ[curr[1]], label)
    /\ handoffs' = Append(handoffs, Handoff)
    /\ steps' = steps + 1
    /\ fstatus' = "running"
    /\ status' = "idle" /\ pc' = "idle" /\ mode' = "none" /\ label' = ""
    /\ prepResult' = Nil /\ execResult' = StrVal(DefaultAction)
    /\ attempt' = 0 /\ idx' = 1 /\ items' = <<>> /\ results' = <<>>
    /\ limit' = 0 /\ sem' = 0 /\ wg' = 0 /\ wpc' = <<>> /\ wattempt' = <<>>
    /\ prepCalls' = 0 /\ postCalls' = 0 /\ execCalls' = 0 /\ execFails' = 0
    /\ itemCalls' = <<>> /\ itemFails' = <<>>
    /\ sleeps' = 0 /\ lastSleep' = Nil /\ callLog' = <<>>
    /\ UNCHANGED <<goVars, cfgVars, shared, impl, succ, nparams, fparams, startNode, sinks,
                   warnings, buildOps, ran, flabel, trace, first>>

NextChain ==
    \/ ChainEnter
    \/ fstatus = "inunit" /\ Run
    \/ Prep
    \/ ExecSingle
    \/ ExecRetry
    \/ Post
    \/ SeqSkip
    \/ SeqExec
    \/ SeqStore
    \/ Spawn
    \/ \E w \in 1..MaxItems : WAcquire(w)
    \/ \E w \in 1..MaxItems : WExec(w)
    \/ \E w \in 1..MaxItems : WRelease(w)
    \/ \E w \in 1..MaxItems : WDone(w)
    \/ \E w \in 1..MaxItems : WCrash(w)
    \/ Wait
    \/ ChainAdvance
    \/ FlowReturn

SpecChain == InitChain /\ [][NextChain]_vars

\* ------------------------------------------------- package goflow: RetryNode
\* nothing of package Flow is in use
RootIdle ==
    /\ params = EmptyMap
    /\ hasExec = FALSE
    /\ hasPrep = FALSE
    /\ hasPost = FALSE
    /\ NodeIdle
    /\ impl = "goflow"
    /\ FlowIdle

rootVars == <<nodeVars, flowVars>>

\* calls of Run made on one node
MaxCalls == 2

\* what Run / RunAsync hands back
Ret(l, e) == Some([label |-> l, err |-> e])

\* a RetryNode whose execFunc fails while CurrentRetry() < failUntil and
\* returns "success" afterwards (the execFunc of TestRetryCounter)
RetryNodeCfgs == [MaxRetries : 0..MaxAttempts, failUntil : 0..MaxAttempts, fallback : BOOLEAN]

\* RetryNode._exec from counter value k on: what execFunc reads from
\* CurrentRetry(), the counter at the return, and the result
RECURSIVE RetryNode_exec(_, _, _)
RetryNode_exec(cfg, k, obs) ==
    IF k >= cfg.MaxRetries
    THEN [observed |-> obs, counter |-> k, label |-> "", err |-> FALSE]
    ELSE IF k >= cfg.failUntil
         THEN [observed |-> Append(obs, k), counter |-> k, label |-> "success", err |-> FALSE]
         ELSE IF k = cfg.MaxRetries - 1
              THEN [observed |-> Append(obs, k), counter |-> k,
                    label |-> IF cfg.fallback THEN "fallback" ELSE "",
                    err |-> ~cfg.fallback]
              ELSE RetryNode_exec(cfg, k + 1, Append(obs, k))

InitRetryNode ==
    /\ RootIdle
    /\ gcfg \in RetryNodeCfgs
    /\ gctx = "live"
    /\ gpc = "idle"
    /\ gcalls = 0
    /\ gret = Nil
    /\ currentRetry = 0
    /\ observed = <<>>
    /\ execCtx = Nil
    /\ gitems = <<>>
    /\ gresults = <<>>
    /\ errCh = <<>>
    /\ gwpc = <<>>
    /\ grecv = 0
    /\ gposted = Nil
    /\ gparams = <<>>
    /\ gruns = <<>>
    /\ mu = Nil
    /\ slocal = <<>>

\* node.Run(shared) on a *RetryNode: RetryNode has no Run of its own, so this
\* is the promoted BaseNode.Run, which calls BaseNode._run; Prep returns shared
RetryNodeRun ==
    /\ gpc \in {"idle", "returned"}
    /\ gcalls < MaxCalls
    /\ gcalls' = gcalls + 1
    /\ gpc' = "exec"
    /\ gret' = Nil
    /\ observed' = <<>>
    /\ UNCHANGED <<rootVars, gcfg, gctx, currentRetry, execCtx, gitems, gresults, errCh,
                   gwpc, grecv, gposted, gparams, gruns, mu, slocal>>

\* n._exec(prepResult) inside BaseNode._run: the receiver is the embedded
\* *BaseNode, so this is BaseNode._exec and BaseNode.Exec, which returns
\* "default", nil; execFunc and the counter are not touched
BaseNode_exec ==
    /\ gpc = "exec"
    /\ gret' = Ret("default", FALSE)
    /\ gpc' = "post"
    /\ UNCHANGED <<rootVars, gcfg, gctx, gcalls, currentRetry, observed, execCtx, gitems,
                   gresults, errCh, gwpc, grecv, gposted, gparams, gruns, mu, slocal>>

\* BaseNode.Post returns execResult, and Run returns it
BaseNodePost ==
    /\ gpc = "post"
    /\ gpc' = "returned"
    /\ UNCHANGED <<rootVars, gcfg, gctx, gcalls, gret, currentRetry, observed, execCtx,
                   gitems, gresults, errCh, gwpc, grecv, gposted, gparams, gruns, mu,
                   slocal>>

NextRetryNode ==
    \/ RetryNodeRun
    \/ BaseNode_exec
    \/ BaseNodePost

SpecRetryNode == InitRetryNode /\ [][NextRetryNode]_vars

\* ------------------------------------------------- SharedState under its lock
\* goroutines calling Append or Set on one SharedState
MaxCallers == 3

ListKey == "list"
KeyOf(w) == "k" \o ToString(w)

\* the value a key holds, with its dynamic type
Generic(seq) == [kind |-> "[]interface{}", val |-> seq]
StoredBefore == {Nil, Some(Generic(<<7>>)), Some([kind |-> "[]int", val |-> <<7>>]),
                 Some([kind |-> "int", val |-> 7])}

SharedCfgs ==
    UNION {[ops : [1..n -> {"Append", "Set"}], before : StoredBefore] : n \in 1..MaxCallers}

InitShared ==
    /\ params = EmptyMap
    /\ hasExec = FALSE
    /\ hasPrep = FALSE
    /\ hasPost = FALSE
    /\ NodeLocalIdle
    /\ impl = "Flow"
    /\ FlowIdle
    /\ gcfg \in SharedCfgs
    /\ shared = IF gcfg.before = Nil THEN EmptyMap ELSE (ListKey :> gcfg.before[1])
    /\ gwpc = [w \in DOMAIN gcfg.ops |-> "idle"]
    /\ slocal = [w \in DOMAIN gcfg.ops |-> Nil]
    /\ mu = Nil
    /\ gctx = "live"
    /\ gpc = "idle"
    /\ gcalls = 0
    /\ gret = Nil
    /\ currentRetry = 0
    /\ observed = <<>>
    /\ execCtx = Nil
    /\ gitems = <<>>
    /\ gresults = <<>>
    /\ errCh = <<>>
    /\ grecv = 0
    /\ gposted = Nil
    /\ gparams = <<>>
    /\ gruns = <<>>

\* a lock that does not keep a second caller out
canLock_Always(m) == TRUE

\* s.mu.Lock() goes through when no one holds the lock
canLock(m) == m = Nil

\* s.mu.Lock(), the first statement of Set and of Append
SLock(w) ==
    /\ w \in DOMAIN gwpc
    /\ gwpc[w] = "idle"
    /\ canLock(mu)
    /\ mu' = Some(w)
    /\ gwpc' = [gwpc EXCEPT ![w] = "locked"]
    /\ UNCHANGED <<nodeVars, flowVars, gcfg, gctx, gpc, gcalls, gret, currentRetry, observed,
                   execCtx, gitems, gresults, errCh, grecv, gposted, gparams, gruns, slocal>>

\* Append: existing, ok := s.data[key].([]interface{})
SAppendRead(w) ==
    /\ w \in DOMAIN gwpc
    /\ gwpc[w] = "locked" /\ gcfg.ops[w] = "Append"
    /\ slocal' = [slocal EXCEPT ![w] =
                    IF ListKey \in DOMAIN shared /\ shared[ListKey].kind = "[]interface{}"
                    THEN Some(shared[ListKey].val)
                    ELSE Nil]
    /\ gwpc' = [gwpc EXCEPT ![w] = "read"]
    /\ UNCHANGED <<nodeVars, flowVars, gcfg, gctx, gpc, gcalls, gret, currentRetry, observed,
                   execCtx, gitems, gresults, errCh, grecv, gposted, gparams, gruns, mu>>

\* Append: s.data[key] = append(existing, value), or a new one-item slice
SAppendWrite(w) ==
    /\ w \in DOMAIN gwpc
    /\ gwpc[w] = "read"
    /\ shared' = Set(shared, ListKey,
                     Generic(IF slocal[w] # Nil THEN Append(slocal[w][1], w) ELSE <<w>>))
    /\ gwpc' = [gwpc EXCEPT ![w] = "written"]
    /\ UNCHANGED <<nodeLocal, flowVars, gcfg, gctx, gpc, gcalls, gret, currentRetry, observed,
                   execCtx, gitems, gresults, errCh, grecv, gposted, gparams, gruns, mu,
                   slocal>>

\* Set: s.data[key] = value
SSet(w) ==
    /\ w \in DOMAIN gwpc
    /\ gwpc[w] = "locked" /\ gcfg.ops[w] = "Set"
    /\ shared' = Set(shared, KeyOf(w), [kind |-> "int", val |-> w])
    /\ gwpc' = [gwpc EXCEPT ![w] = "written"]
    /\ UNCHANGED <<nodeLocal, flowVars, gcfg, gctx, gpc, gcalls, gret, currentRetry, observed,
                   execCtx, gitems, gresults, errCh, grecv, gposted, gparams, gruns, mu,
                   slocal>>

\* the deferred s.mu.Unlock()
SUnlock(w) ==
    /\ w \in DOMAIN gwpc
    /\ gwpc[w] = "written"
    /\ mu' = Nil
    /\ gwpc' = [gwpc EXCEPT ![w] = "done"]
    /\ UNCHANGED <<nodeVars, flowVars, gcfg, gctx, gpc, gcalls, gret, currentRetry, observed,
                   execCtx, gitems, gresults, errCh, grecv, gposted, gparams, gruns, slocal>>

NextShared ==
    \/ \E w \in 1..MaxCallers : SLock(w)
    \/ \E w \in 1..MaxCallers : SAppendRead(w)
    \/ \E w \in 1..MaxCallers : SAppendWrite(w)
    \/ \E w \in 1..MaxCallers : SSet(w)
    \/ \E w \in 1..MaxCallers : SUnlock(w)

SpecShared == InitShared /\ [][NextShared]_vars

\* ------------------------------------------------- package goflow: AsyncNode
\* which of the three functions the node has and whether each returns an
\* error; a function that honours the context returns ctx.Err() once the
\* context is done, one that does not never looks at it
FnKinds == {"none", "ok", "err"}
AsyncCfgs == [prep : FnKinds, exec : FnKinds, post : FnKinds, honours : BOOLEAN]

\* does a call of a user function of the given kind return an error
fnFails(kind, honours, ctx) == kind = "err" \/ (honours /\ ctx = "done")

InitAsync ==
    /\ RootIdle
    /\ gcfg \in AsyncCfgs
    /\ gctx \in {"live", "done"}
    /\ gpc = "idle"
    /\ gcalls = 0
    /\ gret = Nil
    /\ currentRetry = 0
    /\ observed = <<>>
    /\ execCtx = Nil
    /\ gitems = <<>>
    /\ gresults = <<>>
    /\ errCh = <<>>
    /\ gwpc = <<>>
    /\ grecv = 0
    /\ gposted = Nil
    /\ gparams = <<>>
    /\ gruns = <<>>
    /\ mu = Nil
    /\ slocal = <<>>

\* cancel() is called, or the deadline of the context passes
CtxDone ==
    /\ gctx = "live"
    /\ gpc \notin {"idle", "returned"}
    /\ gctx' = "done"
    /\ UNCHANGED <<rootVars, gcfg, gpc, gcalls, gret, currentRetry, observed, execCtx,
                   gitems, gresults, errCh, gwpc, grecv, gposted, gparams, gruns, mu,
                   slocal>>

\* AsyncNode.RunAsync is called
AsyncRunAsync ==
    /\ gpc = "idle"
    /\ gcalls' = gcalls + 1
    /\ gpc' = "prep"
    /\ UNCHANGED <<rootVars, gcfg, gctx, gret, currentRetry, observed, execCtx, gitems,
                   gresults, errCh, gwpc, grecv, gposted, gparams, gruns, mu, slocal>>

\* prep, err = n.prepAsyncFunc(ctx, shared), or prep = shared
AsyncPrep ==
    /\ gpc = "prep"
    /\ IF gcfg.prep # "none" /\ fnFails(gcfg.prep, gcfg.honours, gctx)
       THEN gpc' = "returned" /\ gret' = Ret("", TRUE)
       ELSE gpc' = "exec" /\ gret' = gret
    /\ UNCHANGED <<rootVars, gcfg, gctx, gcalls, currentRetry, observed, execCtx, gitems,
                   gresults, errCh, gwpc, grecv, gposted, gparams, gruns, mu, slocal>>

\* exec, err = n.execAsyncFunc(ctx, prep); without the function exec is ""
AsyncExec ==
    /\ gpc = "exec"
    /\ IF gcfg.exec = "none"
       THEN gpc' = "post" /\ gret' = Ret("", FALSE) /\ execCtx' = execCtx
       ELSE /\ execCtx' = Some(gctx)
            /\ IF fnFails(gcfg.exec, gcfg.honours, gctx)
               THEN gpc' = "returned" /\ gret' = Ret("", TRUE)
               ELSE gpc' = "post" /\ gret' = Ret("done", FALSE)
    /\ UNCHANGED <<rootVars, gcfg, gctx, gcalls, currentRetry, observed, gitems,
                   gresults, errCh, gwpc, grecv, gposted, gparams, gruns, mu, slocal>>

\* return n.postAsyncFunc(ctx, shared, prep, exec), or return exec, nil
AsyncPost ==
    /\ gpc = "post"
    /\ gpc' = "returned"
    /\ gret' = IF gcfg.post = "none" THEN gret
               ELSE IF fnFails(gcfg.post, gcfg.honours, gctx) THEN Ret("", TRUE)
               ELSE Ret("posted", FALSE)
    /\ UNCHANGED <<rootVars, gcfg, gctx, gcalls, currentRetry, observed, execCtx, gitems,
                   gresults, errCh, gwpc, grecv, gposted, gparams, gruns, mu, slocal>>

NextAsync ==
    \/ CtxDone
    \/ AsyncRunAsync
    \/ AsyncPrep
    \/ AsyncExec
    \/ AsyncPost

SpecAsync == InitAsync /\ [][NextAsync]_vars

\* -------------------------------------------- package goflow: AsyncRetryNode
\* execAsyncFunc fails on the attempts before failUntil and returns "success"
\* from then on; delay tells whether RetryDelay > 0
AsyncRetryCfgs ==
    [MaxRetries : 0..MaxAttempts, failUntil : 0..MaxAttempts, fallback : BOOLEAN,
     delay : BOOLEAN]

\* what RunAsync hands back, with the origin of the error
RetBy(l, cause) == Some([label |-> l, err |-> cause # "none", cause |-> cause])

InitAsyncRetry ==
    /\ RootIdle
    /\ gcfg \in AsyncRetryCfgs
    /\ gctx \in {"live", "done"}
    /\ gpc = "idle"
    /\ gcalls = 0
    /\ gret = Nil
    /\ currentRetry = 0
    /\ observed = <<>>
    /\ execCtx = Nil
    /\ gitems = <<>>
    /\ gresults = <<>>
    /\ errCh = <<>>
    /\ gwpc = <<>>
    /\ grecv = 0
    /\ gposted = Nil
    /\ gparams = <<>>
    /\ gruns = <<>>
    /\ mu = Nil
    /\ slocal = <<>>

\* AsyncRetryNode.RunAsync is called: prep := shared, i := 0
AsyncRetryRunAsync ==
    /\ gpc = "idle"
    /\ gcalls' = gcalls + 1
    /\ gpc' = "attempt"
    /\ UNCHANGED <<rootVars, gcfg, gctx, gret, currentRetry, observed, execCtx, gitems,
                   gresults, errCh, gwpc, grecv, gposted, gparams, gruns, mu, slocal>>

\* one iteration up to the wait, with i = number of attempts made so far; when
\* the loop condition fails RunAsync returns "max retries exceeded"
AsyncRetryAttempt ==
    /\ gpc = "attempt"
    /\ LET i == Len(observed)
       IN IF i >= gcfg.MaxRetries
          THEN gpc' = "returned" /\ gret' = RetBy("", "max") /\ observed' = observed
          ELSE /\ observed' = Append(observed, i)
               /\ IF i >= gcfg.failUntil
                  THEN gpc' = "returned" /\ gret' = RetBy("success", "none")
                  ELSE IF i = gcfg.MaxRetries - 1
                       THEN /\ gpc' = "returned"
                            /\ gret' = IF gcfg.fallback THEN RetBy("fallback", "none")
                                       ELSE RetBy("", "exec")
                       ELSE /\ gpc' = IF gcfg.delay THEN "wait" ELSE "attempt"
                            /\ gret' = gret
    /\ UNCHANGED <<rootVars, gcfg, gctx, gcalls, currentRetry, execCtx, gitems, gresults,
                   errCh, gwpc, grecv, gposted, gparams, gruns, mu, slocal>>

\* a wait that only the timer ends
waitOutcome_TimerOnly(ctx) == "timer"

\* select: <-time.After(n.RetryDelay) or <-ctx.Done(); a context that is done
\* while the timer runs ends the wait
waitOutcome(ctx) == IF ctx = "done" THEN "cancelled" ELSE "timer"

\* the select statement is left
AsyncRetryWait ==
    /\ gpc = "wait"
    /\ IF waitOutcome(gctx) = "cancelled"
       THEN gpc' = "returned" /\ gret' = RetBy("", "ctx")
       ELSE gpc' = "attempt" /\ gret' = gret
    /\ UNCHANGED <<rootVars, gcfg, gctx, gcalls, currentRetry, observed, execCtx, gitems,
                   gresults, errCh, gwpc, grecv, gposted, gparams, gruns, mu, slocal>>

NextAsyncRetry ==
    \/ CtxDone
    \/ AsyncRetryRunAsync
    \/ AsyncRetryAttempt
    \/ AsyncRetryWait

SpecAsyncRetry == InitAsyncRetry /\ [][NextAsyncRetry]_vars

\* ----------------------------------------- package goflow: ParallelBatchNode
\* the object RunAsync is called on, told by the fields of its configuration
OnParallelBatchNode == "MaxConcurrency" \in DOMAIN gcfg
OnParallelBatchFlow == "chain" \in DOMAIN gcfg

\* a channel with room for one message less than there are goroutines
errChCap_OneShort(n) == n - 1

\* errCh := make(chan error, len(items)), make(chan error, len(batches))
errChCap(n) == n

\* a send on a buffered channel proceeds while the buffer has room
canSend(ch, cap) == Len(ch) < cap

\* prepFunc returns []int{1, ..., n} or a value of another type; execAsyncFunc
\* fails on the items in fails and returns F(item) on the others
ParBatchCfgs ==
    UNION {[MaxConcurrency : 0..MaxLimit, continueOnError : BOOLEAN, prep : {"[]int"},
            n : {k}, fails : SUBSET (1..k)] : k \in 0..MaxItems}
    \cup [MaxConcurrency : 0..MaxLimit, continueOnError : BOOLEAN, prep : {"other"},
          n : {0}, fails : {{}}]

\* what execAsyncFunc returns for item i beside the error
itemResult(cfg, i) == IF i \in cfg.fails THEN Nil ELSE Some(F(i))

InitParBatch ==
    /\ RootIdle
    /\ gcfg \in ParBatchCfgs
    /\ gctx = "live"
    /\ gpc = "idle"
    /\ gcalls = 0
    /\ gret = Nil
    /\ currentRetry = 0
    /\ observed = <<>>
    /\ execCtx = Nil
    /\ gitems = <<>>
    /\ gresults = <<>>
    /\ errCh = <<>>
    /\ gwpc = <<>>
    /\ grecv = 0
    /\ gposted = Nil
    /\ gparams = <<>>
    /\ gruns = <<>>
    /\ mu = Nil
    /\ slocal = <<>>

\* prep, the type switch, make(results), make(errCh) and the go statements
ParRunAsync ==
    /\ OnParallelBatchNode
    /\ gpc = "idle"
    /\ gcalls' = gcalls + 1
    /\ IF gcfg.prep # "[]int"
       THEN /\ gpc' = "panic"
            /\ UNCHANGED <<gitems, gresults, gwpc>>
       ELSE /\ gpc' = "recv"
            /\ gitems' = Iota(gcfg.n)
            /\ gresults' = [i \in 1..gcfg.n |-> Nil]
            /\ gwpc' = [i \in 1..gcfg.n |-> "start"]
    /\ UNCHANGED <<rootVars, gcfg, gctx, gret, currentRetry, observed, execCtx, errCh,
                   grecv, gposted, gparams, gruns, mu, slocal>>

\* goroutine i enters n.execAsyncFunc(ctx, item)
ParExecBegin(i) ==
    /\ OnParallelBatchNode
    /\ i \in DOMAIN gwpc
    /\ gwpc[i] = "start"
    /\ gwpc' = [gwpc EXCEPT ![i] = "executing"]
    /\ UNCHANGED <<rootVars, gcfg, gctx, gpc, gcalls, gret, currentRetry, observed, execCtx,
                   gitems, gresults, errCh, grecv, gposted, gparams, gruns, mu, slocal>>

\* execAsyncFunc returns: if err != nil && !n.continueOnError
ParExecEnd(i) ==
    /\ OnParallelBatchNode
    /\ i \in DOMAIN gwpc
    /\ gwpc[i] = "executing"
    /\ gwpc' = [gwpc EXCEPT ![i] = IF i \in gcfg.fails /\ ~gcfg.continueOnError
                                   THEN "send_err"
                                   ELSE "store"]
    /\ UNCHANGED <<rootVars, gcfg, gctx, gpc, gcalls, gret, currentRetry, observed, execCtx,
                   gitems, gresults, errCh, grecv, gposted, gparams, gruns, mu, slocal>>

\* results[i] = result
ParStore(i) ==
    /\ OnParallelBatchNode
    /\ i \in DOMAIN gwpc
    /\ gwpc[i] = "store"
    /\ gresults' = [gresults EXCEPT ![i] = itemResult(gcfg, gitems[i])]
    /\ gwpc' = [gwpc EXCEPT ![i] = "send_nil"]
    /\ UNCHANGED <<rootVars, gcfg, gctx, gpc, gcalls, gret, currentRetry, observed, execCtx,
                   gitems, errCh, grecv, gposted, gparams, gruns, mu, slocal>>

\* errCh <- err or errCh <- nil
ParSend(i) ==
    /\ OnParallelBatchNode
    /\ i \in DOMAIN gwpc
    /\ gwpc[i] \in {"send_err", "send_nil"}
    /\ canSend(errCh, errChCap(Len(gitems)))
    /\ errCh' = Append(errCh, gwpc[i] = "send_err")
    /\ gwpc' = [gwpc EXCEPT ![i] = "done"]
    /\ UNCHANGED <<rootVars, gcfg, gctx, gpc, gcalls, gret, currentRetry, observed, execCtx,
                   gitems, gresults, grecv, gposted, gparams, gruns, mu, slocal>>

\* a receiving loop that stops one message early
recvTarget_Short(n) == n - 1

\* the receiving loop runs for i := 0; i < len(items); i++
recvTarget(n) == n

\* err := <-errCh in the receiving loop
ParRecv ==
    /\ OnParallelBatchNode
    /\ gpc = "recv"
    /\ grecv < recvTarget(Len(gitems))
    /\ errCh # <<>>
    /\ errCh' = Tail(errCh)
    /\ IF Head(errCh) /\ ~gcfg.continueOnError
       THEN gpc' = "returned" /\ gret' = Ret("", TRUE) /\ grecv' = grecv
       ELSE gpc' = gpc /\ gret' = gret /\ grecv' = grecv + 1
    /\ UNCHANGED <<rootVars, gcfg, gctx, gcalls, currentRetry, observed, execCtx,
                   gitems, gresults, gwpc, gposted, gparams, gruns, mu, slocal>>

\* return n.postFunc(shared, prep, results), nil
ParPost ==
    /\ OnParallelBatchNode
    /\ gpc = "recv"
    /\ grecv >= recvTarget(Len(gitems))
    /\ gposted' = Some(gresults)
    /\ gret' = Ret("posted", FALSE)
    /\ gpc' = "returned"
    /\ UNCHANGED <<rootVars, gcfg, gctx, gcalls, currentRetry, observed, execCtx,
                   gitems, gresults, errCh, gwpc, grecv, gparams, gruns, mu, slocal>>

NextParBatch ==
    \/ ParRunAsync
    \/ \E i \in 1..MaxItems : ParExecBegin(i)
    \/ \E i \in 1..MaxItems : ParExecEnd(i)
    \/ \E i \in 1..MaxItems : ParStore(i)
    \/ \E i \in 1..MaxItems : ParSend(i)
    \/ ParRecv
    \/ ParPost

SpecParBatch == InitParBatch /\ [][NextParBatch]_vars

\* ----------------------------------------- package goflow: ParallelBatchFlow
\* a flow over a chain of one or two AsyncNodes; prepAsyncFunc returns n
\* batches, batch b being {"batch_id": b}; the first node fails for the
\* batches in fails
ChainLens == 1..2
BatchOf(b) == ("batch_id" :> b)
ParFlowCfgs ==
    UNION {[fparams : {EmptyMap, ("batch_id" :> 0), ("base" :> 0)}, chain : ChainLens,
            prepErr : BOOLEAN, n : {k}, fails : SUBSET (1..k)] : k \in 0..MaxItems}

\* params of a batch traversal: f.params, then the batch's own entries over it
overlay(fp, batch) == batch @@ fp

InitParFlow ==
    /\ RootIdle
    /\ gcfg \in ParFlowCfgs
    /\ gparams = [k \in 1..gcfg.chain |-> EmptyMap]
    /\ gruns = [b \in 1..gcfg.n |-> <<>>]
    /\ gctx = "live"
    /\ gpc = "idle"
    /\ gcalls = 0
    /\ gret = Nil
    /\ currentRetry = 0
    /\ observed = <<>>
    /\ execCtx = Nil
    /\ gitems = <<>>
    /\ gresults = <<>>
    /\ errCh = <<>>
    /\ gwpc = <<>>
    /\ grecv = 0
    /\ gposted = Nil
    /\ mu = Nil
    /\ slocal = <<>>

\* prepAsyncFunc, make(errCh) and the go statements; each goroutine builds
\* its params and enters _orchAsync with curr = f.startNode
FlowRunAsync ==
    /\ OnParallelBatchFlow
    /\ gpc = "idle"
    /\ gcalls' = gcalls + 1
    /\ IF gcfg.prepErr
       THEN gpc' = "returned" /\ gret' = Ret("", TRUE) /\ gwpc' = gwpc
       ELSE /\ gpc' = "recv" /\ gret' = gret
            /\ gwpc' = [b \in 1..gcfg.n |-> [pc |-> "set", curr |-> 1]]
    /\ UNCHANGED <<rootVars, gcfg, gctx, currentRetry, observed, execCtx, gitems, gresults,
                   errCh, grecv, gposted, gparams, gruns, mu, slocal>>

\* _orchAsync of batch b: curr.SetParams(params) on the node object every
\* traversal shares
OrchSetParams(b) ==
    /\ OnParallelBatchFlow
    /\ b \in DOMAIN gwpc
    /\ gwpc[b].pc = "set"
    /\ gparams' = [gparams EXCEPT ![gwpc[b].curr] = overlay(gcfg.fparams, BatchOf(b))]
    /\ gwpc' = [gwpc EXCEPT ![b].pc = "run"]
    /\ UNCHANGED <<rootVars, gcfg, gctx, gpc, gcalls, gret, currentRetry, observed, execCtx,
                   gitems, gresults, errCh, grecv, gposted, gruns, mu, slocal>>

\* _orchAsync of batch b: n.RunAsync(ctx, shared); the unit works with the
\* params its node holds now; on an error _orchAsync returns it, otherwise
\* getNextNode moves on
OrchRunUnit(b) ==
    /\ OnParallelBatchFlow
    /\ b \in DOMAIN gwpc
    /\ gwpc[b].pc = "run"
    /\ LET k == gwpc[b].curr
       IN /\ gruns' = [gruns EXCEPT ![b] = Append(@, [node |-> k, params |-> gparams[k]])]
          /\ gwpc' = [gwpc EXCEPT ![b] =
                        IF k = 1 /\ b \in gcfg.fails THEN [pc |-> "send_err", curr |-> k]
                        ELSE IF k < gcfg.chain THEN [pc |-> "set", curr |-> k + 1]
                        ELSE [pc |-> "send_nil", curr |-> k]]
    /\ UNCHANGED <<rootVars, gcfg, gctx, gpc, gcalls, gret, currentRetry, observed, execCtx,
                   gitems, gresults, errCh, grecv, gposted, gparams, mu, slocal>>

\* errCh <- err at the end of the goroutine of batch b
OrchSend(b) ==
    /\ OnParallelBatchFlow
    /\ b \in DOMAIN gwpc
    /\ gwpc[b].pc \in {"send_err", "send_nil"}
    /\ canSend(errCh, errChCap(gcfg.n))
    /\ errCh' = Append(errCh, gwpc[b].pc = "send_err")
    /\ gwpc' = [gwpc EXCEPT ![b].pc = "done"]
    /\ UNCHANGED <<rootVars, gcfg, gctx, gpc, gcalls, gret, currentRetry, observed, execCtx,
                   gitems, gresults, grecv, gposted, gparams, gruns, mu, slocal>>

\* err := <-errCh in the receiving loop of ParallelBatchFlow.RunAsync
FlowRecv ==
    /\ OnParallelBatchFlow
    /\ gpc = "recv"
    /\ grecv < gcfg.n
    /\ errCh # <<>>
    /\ errCh' = Tail(errCh)
    /\ IF Head(errCh)
       THEN gpc' = "returned" /\ gret' = Ret("", TRUE) /\ grecv' = grecv
       ELSE gpc' = gpc /\ gret' = gret /\ grecv' = grecv + 1
    /\ UNCHANGED <<rootVars, gcfg, gctx, gcalls, currentRetry, observed, execCtx,
                   gitems, gresults, gwpc, gposted, gparams, gruns, mu, slocal>>

\* return f.postAsyncFunc(ctx, shared, batches, nil)
FlowPostAsync ==
    /\ OnParallelBatchFlow
    /\ gpc = "recv"
    /\ grecv >= gcfg.n
    /\ gret' = Ret("posted", FALSE)
    /\ gpc' = "returned"
    /\ UNCHANGED <<rootVars, gcfg, gctx, gcalls, currentRetry, observed, execCtx,
                   gitems, gresults, errCh, gwpc, grecv, gposted, gparams, gruns, mu,
                   slocal>>

NextParFlow ==
    \/ FlowRunAsync
    \/ \E b \in 1..MaxItems : OrchSetParams(b)
    \/ \E b \in 1..MaxItems : OrchRunUnit(b)
    \/ \E b \in 1..MaxItems : OrchSend(b)
    \/ FlowRecv
    \/ FlowPostAsync

SpecParFlow == InitParFlow /\ [][NextParFlow]_vars

\* ------------------- package goflow: the goroutines of both RunAsync methods
\* RunAsync of a ParallelBatchNode, or of a ParallelBatchFlow over one node
\* and without params of its own
InitParSend ==
    \/ InitParBatch
    \/ InitParFlow /\ gcfg.chain = 1 /\ gcfg.fparams = EmptyMap

NextParSend ==
    \/ ParRunAsync
    \/ \E i \in 1..MaxItems : ParExecBegin(i)
    \/ \E i \in 1..MaxItems : ParExecEnd(i)
    \/ \E i \in 1..MaxItems : ParStore(i)
    \/ \E i \in 1..MaxItems : ParSend(i)
    \/ ParRecv
    \/ ParPost
    \/ FlowRunAsync
    \/ \E b \in 1..MaxItems : OrchSetParams(b)
    \/ \E b \in 1..MaxItems : OrchRunUnit(b)
    \/ \E b \in 1..MaxItems : OrchSend(b)
    \/ FlowRecv
    \/ FlowPostAsync

\* the Go scheduler runs some runnable goroutine as long as there is one,
\* and the user functions return
SpecParSend == InitParSend /\ [][NextParSend]_vars /\ WF_vars(NextParSend)

\* ------------------------------------------------- package goflow: BatchNode
\* prepFunc is unset (prep is the SharedState), or returns []int{1, ..., n} or
\* a value that is no slice; execFunc fails on the items in fails and returns
\* F(item) on the others
BatchNodeCfgs ==
    UNION {[stopOnError : BOOLEAN, hasPost : BOOLEAN, prep : {"[]int"},
            n : {k}, fails : SUBSET (1..k)] : k \in 0..MaxItems}
    \cup [stopOnError : BOOLEAN, hasPost : BOOLEAN, prep : {"unset", "other"},
          n : {0}, fails : {{}}]

InitBatchNode ==
    /\ RootIdle
    /\ gcfg \in BatchNodeCfgs
    /\ gctx = "live"
    /\ gpc = "idle"
    /\ gcalls = 0
    /\ gret = Nil
    /\ currentRetry = 0
    /\ observed = <<>>
    /\ execCtx = Nil
    /\ gitems = <<>>
    /\ gresults = <<>>
    /\ errCh = <<>>
    /\ gwpc = <<>>
    /\ grecv = 0
    /\ gposted = Nil
    /\ gparams = <<>>
    /\ gruns = <<>>
    /\ mu = Nil
    /\ slocal = <<>>

\* BatchNode.Run up to the loop: prep, the type switch (anything that is no
\* slice gives no items), results := make([]interface{}, len(items))
BatchNodeRun ==
    /\ gpc \in {"idle", "returned"}
    /\ gcalls < MaxCalls
    /\ gcalls' = gcalls + 1
    /\ gpc' = "loop"
    /\ gitems' = IF gcfg.prep = "[]int" THEN Iota(gcfg.n) ELSE <<>>
    /\ gresults' = [i \in 1..(IF gcfg.prep = "[]int" THEN gcfg.n ELSE 0) |-> Nil]
    /\ observed' = <<>>
    /\ gret' = Nil
    /\ gposted' = Nil
    /\ UNCHANGED <<rootVars, gcfg, gctx, currentRetry, execCtx, errCh, gwpc, grecv,
                   gparams, gruns, mu, slocal>>

\* an error that never stops the loop
onItemError_Continue(stop) == "nil"

\* if err != nil: panic(err) when n.stopOnError, results[i] = nil otherwise
onItemError(stop) == IF stop THEN "panic" ELSE "nil"

\* one iteration of the loop over the items
BatchNodeExec ==
    /\ gpc = "loop"
    /\ Len(observed) < Len(gitems)
    /\ LET i == Len(observed) + 1
       IN /\ observed' = Append(observed, gitems[i])
          /\ IF gitems[i] \in gcfg.fails /\ onItemError(gcfg.stopOnError) = "panic"
             THEN gpc' = "panic" /\ gresults' = gresults
             ELSE /\ gpc' = gpc
                  /\ gresults' = [gresults EXCEPT ![i] = itemResult(gcfg, gitems[i])]
    /\ UNCHANGED <<rootVars, gcfg, gctx, gcalls, gret, currentRetry, execCtx, gitems, errCh,
                   gwpc, grecv, gposted, gparams, gruns, mu, slocal>>

\* after the loop: return n.postFunc(shared, prep, results), or "done"
BatchNodePost ==
    /\ gpc = "loop"
    /\ Len(observed) = Len(gitems)
    /\ gpc' = "returned"
    /\ IF gcfg.hasPost
       THEN gposted' = Some(gresults) /\ gret' = Ret("posted", FALSE)
       ELSE gposted' = gposted /\ gret' = Ret("done", FALSE)
    /\ UNCHANGED <<rootVars, gcfg, gctx, gcalls, currentRetry, observed, execCtx, gitems,
                   gresults, errCh, gwpc, grecv, gparams, gruns, mu, slocal>>

NextBatchNode ==
    \/ BatchNodeRun
    \/ BatchNodeExec
    \/ BatchNodePost

SpecBatchNode == InitBatchNode /\ [][NextBatchNode]_vars

\* ================================================================ claims
\* what the parameter map says, read directly
pBatch == "batch" \in DOMAIN params /\ params["batch"] = TRUE
pData == "data" \in DOMAIN params
pParallel == "parallel" \in DOMAIN params /\ params["parallel"] = TRUE
pRetries == IF "retries" \in DOMAIN params THEN params["retries"] ELSE 0
pLimit == IF "parallel_limit" \in DOMAIN params THEN params["parallel_limit"] ELSE 0
Stored == BatchResultsKey \in DOMAIN shared

\* C1: once Run has been entered the mode is: batch (parallel if "parallel" is
\* true, else sequential) when batch is true and data is present, whatever
\* retries is; else retry when retries > 0; else single. A batch run calls no
\* prep or post function and returns batch_complete with results stored; a run
\* that is not a batch run (batch true without data included) never writes the
\* batch-results key, calls exec at most retries times in retry mode and at
\* most once in single mode.
C1_ModePriority ==
    status # "idle" =>
        /\ pBatch /\ pData /\ pParallel => mode = "runBatchParallel"
        /\ pBatch /\ pData /\ ~pParallel => mode = "runBatchSequential"
        /\ ~(pBatch /\ pData) /\ pRetries > 0 => mode = "runWithRetry" /\ execCalls <= pRetries
        /\ ~(pBatch /\ pData) /\ pRetries <= 0 => mode = "runSingle" /\ execCalls <= 1
        /\ pBatch /\ pData =>
             /\ prepCalls = 0 /\ postCalls = 0
             /\ status = "returned" => label = BatchCompleteAction /\ Stored
             /\ ~pParallel => Workers = {}
        /\ ~(pBatch /\ pData) => ~Stored /\ Workers = {} /\ items = <<>>

C1_Witness ==
    /\ pBatch /\ pData /\ pRetries > 0
    /\ status = "returned" /\ mode = "runBatchSequential"
    /\ execCalls = 2 /\ execFails = 0 /\ Stored

\* C2: in retry mode with an exec function, a run that returned made exactly
\* (failures + 1) invocations with failures < retries, and its label is the
\* post function's value or else the string form of the successful result; a
\* run that failed had all of its retries invocations fail; there is never
\* more than one successful invocation, and none follows it.
C2_RetrySuccess ==
    (mode = "runWithRetry" /\ hasExec) =>
        /\ execCalls - execFails \in {0, 1}
        /\ status = "returned" =>
             /\ execFails < pRetries
             /\ execCalls = execFails + 1
             /\ hasPost => label \in PostLabels
             /\ ~hasPost => label = ToLabel(execResult) /\ execResult \in ExecValues
        /\ status = "panicked" => execFails >= pRetries
        /\ (pc = "exec" /\ status = "running") => execCalls = execFails

C2_Witness ==
    /\ mode = "runWithRetry" /\ hasExec /\ ~hasPost
    /\ status = "returned"
    /\ pRetries = 2 /\ execFails = 1 /\ execCalls = 2
    /\ label = "7"

\* C3: in retry mode with an exec function, exec is never invoked more than
\* retries times; once retries invocations have failed the run has failed
\* fatally, after exactly retries invocations, with no post call and no label.
C3_RetryExhaustion ==
    (mode = "runWithRetry" /\ hasExec) =>
        /\ execCalls <= pRetries
        /\ execFails = pRetries => status = "panicked"
        /\ status = "panicked" =>
             /\ execCalls = pRetries /\ execFails = pRetries
             /\ postCalls = 0 /\ label = "" /\ pc = "done"

C3_Witness ==
    /\ mode = "runWithRetry" /\ hasExec
    /\ status = "panicked"
    /\ pRetries = 2 /\ execCalls = 2 /\ execFails = 2

\* C4: in a sequential batch over the slice S with an exec function that has
\* not failed, the results so far are f of the items already passed, in input
\* order, every item already passed was invoked exactly once and no later item
\* was invoked yet; the run that returned stored [f(S[1]), ..., f(S[N])] under
\* the batch-results key and returned batch_complete.
C4_SequentialBatch ==
    (mode = "runBatchSequential" /\ hasExec /\ execFails = 0
       /\ params["data"].kind = "slice") =>
        LET S == params["data"].val
        IN /\ results = [i \in 1..(idx - 1) |-> Some(F(S[i]))]
           /\ itemCalls = [i \in 1..Len(S) |-> IF i < idx THEN 1 ELSE 0]
           /\ execCalls = idx - 1
           /\ status = "returned" =>
                /\ Stored
                /\ shared[BatchResultsKey] = [i \in 1..Len(S) |-> Some(F(S[i]))]
                /\ label = BatchCompleteAction
                /\ execCalls = Len(S)
           /\ status # "returned" => ~Stored

C4_Witness ==
    /\ mode = "runBatchSequential" /\ hasExec /\ execFails = 0
    /\ status = "returned"
    /\ shared[BatchResultsKey] = <<Some(2), Some(4)>>

\* C5: in a parallel batch over the slice S with an exec function that has not
\* failed, every entry of results is empty or f of the item at that position,
\* and the run that returned stored [f(S[1]), ..., f(S[N])], as a sequential
\* batch does, whatever parallel_limit is and in whatever order items finish.
C5_ParallelOrder ==
    (mode = "runBatchParallel" /\ hasExec /\ execFails = 0
       /\ params["data"].kind = "slice") =>
        LET S == params["data"].val
        IN /\ Len(results) = Len(S)
           /\ \A i \in 1..Len(S) : results[i] \in {Nil, Some(F(S[i]))}
           /\ \A i \in 1..Len(S) :
                results[i] # Nil <=> wpc[i] \in {"release", "wgdone", "finished"}
           /\ status = "returned" =>
                /\ Stored
                /\ shared[BatchResultsKey] = [i \in 1..Len(S) |-> Some(F(S[i]))]
                /\ label = BatchCompleteAction
           /\ status # "returned" => ~Stored

C5_Witness ==
    /\ mode = "runBatchParallel" /\ hasExec /\ execFails = 0
    /\ status = "returned"
    /\ pLimit = 1
    /\ shared[BatchResultsKey] = <<Some(2), Some(4)>>

ranNode == ran[1].node
ranLabel == ran[1].label
ranKey == IF ranLabel = "" THEN DefaultAction ELSE ranLabel
ranSucc == succ[ranNode]
Warned(kind, action) ==
    \E i \in 1..Len(warnings) : warnings[i] = [kind |-> kind, action |-> action]

\* C7: a Flow.Run that returned gives back the label of the unit that ran last,
\* unchanged; with no start node no unit ever runs and the result is "".
C7_FlowResult ==
    /\ (fstatus # "build" /\ startNode = Nil) => (ran = Nil /\ steps = 0)
    /\ fstatus = "returned" =>
         /\ ran = Nil => flabel = ""
         /\ ran # Nil => flabel = ranLabel

C7_Witness ==
    /\ fstatus = "returned"
    /\ steps = 2
    /\ ran # Nil /\ ranLabel = "" /\ flabel = ""

\* C8: after a unit ran and returned a label that has a registered successor,
\* the unit the loop holds next is exactly that successor, also when another
\* successor is registered under another label.
C8_FollowsRegistered ==
    (fstatus = "running" /\ ran # Nil /\ ranKey \in DOMAIN ranSucc) =>
        curr = Some(ranSucc[ranKey])

C8_Witness ==
    /\ fstatus = "running" /\ ran # Nil
    /\ ranLabel = "a"
    /\ "a" \in DOMAIN ranSucc /\ DefaultAction \in DOMAIN ranSucc
    /\ ranSucc["a"] # ranSucc[DefaultAction]
    /\ curr = Some(ranSucc["a"])

C10_WarningDelivered ==
    (impl = "goflow" /\ "flow" \in sinks /\ ran # Nil) =>
        /\ (ranKey \notin DOMAIN ranSucc /\ DOMAIN ranSucc # {}) => Warned("not_found", ranKey)
        /\ (\A n \in Nodes : succ[n] = EmptyMap) =>
             ~ \E l \in RetLabels : Warned("not_found", l)

\* ------------------------------------------------------- claims C11 - C20
\* C11: a unit that returned the empty label is routed as if it had returned
\* the default label, and the default label is the one under which Next files
\* an edge whose label was omitted or empty: no edge is ever filed under "".
C11_EmptyIsDefault ==
    /\ (fstatus = "running" /\ ran # Nil /\ ranLabel = "") =>
          curr = Lookup(ranSucc, DefaultAction)
    /\ \A n \in Nodes : "" \notin DOMAIN succ[n]

\* the params the unit that ran last executed with, and those it had before
ranCfg == ran[1].cfg
ranOwn == ran[1].own

\* a nil ConfigMap reads like an empty one
flowCfg == IF fparams = Nil THEN EmptyMap ELSE fparams[1]

\* C12 as stated: every unit that ran executed with exactly the orchestrator's
\* ConfigMap.
C12_Original ==
    ran # Nil => ranCfg = flowCfg /\ nparams[ranNode] = flowCfg

\* C12 amended: every unit that ran while the orchestrator's ConfigMap was not
\* nil executed with exactly that ConfigMap, whatever its own was (package
\* Flow leaves the unit's ConfigMap alone when the orchestrator's is nil).
C12_ParamsReplaced ==
    (ran # Nil /\ fparams # Nil) =>
        /\ ranCfg = fparams[1]
        /\ nparams[ranNode] = fparams[1]

C12_Witness ==
    /\ ran # Nil /\ impl = "Flow"
    /\ fparams = Some(EmptyMap)
    /\ ranOwn = BatchCfg
    /\ ranCfg = EmptyMap
    /\ ran[1].mode = "runSingle"

\* C13: a unit given data, batch = true and parallel = true through SetParams
\* runs in parallel batch mode when Flow.Run reaches it, returns
\* batch_complete and stores its results.
C13_KeepsBatchInFlow ==
    (impl = "Flow" /\ ran # Nil /\ ranOwn = BatchCfg) =>
        /\ ran[1].mode = "runBatchParallel"
        /\ ranLabel = BatchCompleteAction
        /\ BatchResultsKey \in DOMAIN shared

\* the invocations an item gets before it fails for good
Budget == IF pRetries > 0 THEN pRetries ELSE 1
Exhausted == {i \in DOMAIN itemFails : itemFails[i] >= Budget}

\* C14: in a sequential batch an item that failed Budget times stops the run
\* fatally at that item: no later item was invoked, no label was returned and
\* the SharedState is as it was before the run; the results of the earlier
\* items exist only in the local slice.
C14_SequentialAbort ==
    (mode = "runBatchSequential" /\ hasExec) =>
        /\ \A i \in Exhausted : status = "panicked" /\ idx = i
        /\ status = "panicked" =>
             /\ Exhausted = {idx}
             /\ itemCalls[idx] = Budget
             /\ \A i \in (idx + 1)..Len(items) : itemCalls[i] = 0
             /\ Len(results) = idx - 1
             /\ label = "" /\ pc = "done"
             /\ shared = EmptyMap

C14_Witness ==
    /\ mode = "runBatchSequential" /\ hasExec
    /\ status = "panicked"
    /\ pRetries = 2 /\ Len(items) = 2 /\ idx = 2
    /\ itemFails = <<0, 2>> /\ itemCalls = <<1, 2>>
    /\ results = <<Some(2)>> /\ ~Stored

\* C15: in a parallel batch, once an item failed Budget times the run never
\* stores anything under the batch-results key and never returns
\* batch_complete.
C15_ParallelAbort ==
    (mode = "runBatchParallel" /\ Exhausted # {}) =>
        /\ ~Stored
        /\ label # BatchCompleteAction
        /\ status # "returned"

\* C16: in a parallel batch an item that failed Budget times stops the Run call
\* on the thread that called it: the call is still running or has panicked
\* there, where the caller can recover; the process is not brought down.
C16_RaisedOnCaller ==
    (mode = "runBatchParallel" /\ Exhausted # {}) =>
        status \in {"running", "panicked"}

\* C17: a second call of Flow.Run on the same flow with a fresh SharedState
\* executes the units of the first call in the same order, with the same
\* params and labels, and returns the same label.
IsPrefix(a, b) == Len(a) <= Len(b) /\ a = SubSeq(b, 1, Len(a))

C17_Deterministic ==
    first # Nil =>
        /\ IsPrefix(trace, first[1].trace)
        /\ fstatus = "returned" =>
             /\ trace = first[1].trace
             /\ flabel = first[1].result

C17_Witness ==
    /\ first # Nil /\ fstatus = "returned"
    /\ Len(trace) = 2
    /\ trace[1].node # trace[2].node
    /\ trace[1].label = "a"
    /\ flabel = "b"

\* "retry_delay", read directly
pDelay == IF "retry_delay" \in DOMAIN params THEN params["retry_delay"] ELSE 0

C19_SleepCount ==
    (mode = "runWithRetry" /\ hasExec) =>
        /\ pDelay > 0 =>
             /\ status \in {"running", "returned"} => sleeps = execFails
             /\ status = "panicked" => sleeps = pRetries - 1
        /\ pDelay = 0 => sleeps = 0 /\ lastSleep = Nil
        /\ status = "returned" => execCalls = execFails + 1
        /\ status = "panicked" => execCalls = pRetries /\ execFails = pRetries

C19_Witness ==
    /\ mode = "runWithRetry" /\ hasExec
    /\ status = "panicked"
    /\ pDelay > 0 /\ pRetries = 3
    /\ execFails = 3 /\ sleeps = 2

\* C20: with batch = true and an empty slice as data, sequential or parallel,
\* exec is never invoked, and the run that returned stored an empty sequence
\* under the batch-results key and returned batch_complete.
C20_EmptyBatch ==
    (status # "idle" /\ pBatch /\ pData /\ params["data"] = SliceData(0)) =>
        /\ execCalls = 0
        /\ mode = IF pParallel THEN "runBatchParallel" ELSE "runBatchSequential"
        /\ status \in {"running", "returned"}
        /\ status = "returned" =>
             /\ Stored /\ shared[BatchResultsKey] = <<>>
             /\ label = BatchCompleteAction

C20_Witness ==
    /\ pBatch /\ pParallel /\ hasExec
    /\ "data" \in DOMAIN params /\ params["data"] = SliceData(0)
    /\ status = "returned"
    /\ shared = (BatchResultsKey :> <<>>)
    /\ label = BatchCompleteAction

\* ------------------------------------------------------- claims C21 - C30
RECURSIVE SumTo(_, _)
SumTo(f, n) == IF n = 0 THEN 0 ELSE f[n] + SumTo(f, n - 1)

\* the items of a batch whose goroutine or loop iteration stopped in a panic
Panicking ==
    IF mode = "runBatchParallel"
    THEN {i \in Workers : wpc[i] \in {"panic_release", "panic_wgdone", "panic_exit"}}
    ELSE IF mode = "runBatchSequential" /\ status = "panicked" THEN {idx} ELSE {}

\* the items of a batch whose result has been produced
Succeeded ==
    IF mode = "runBatchParallel"
    THEN {i \in Workers : wpc[i] \in {"release", "wgdone", "finished"}}
    ELSE IF mode = "runBatchSequential" THEN 1..(idx - 1) ELSE {}

\* C21: in a batch with retries = R > 0 every item has its own budget of R
\* invocations: no item is invoked more than R times, an item is given up only
\* after R failures of its own, an item that succeeded was invoked (its
\* failures + 1) times with fewer than R failures and its result f(item) is at
\* its own position, and a run that returned with no item given up made the
\* sum over the items of (failures + 1) invocations.
C21_PerItemRetry ==
    (mode \in {"runBatchSequential", "runBatchParallel"} /\ hasExec /\ pRetries > 0) =>
        /\ \A i \in DOMAIN itemCalls :
             /\ itemCalls[i] <= pRetries
             /\ itemFails[i] <= itemCalls[i]
        /\ \A i \in Panicking : itemFails[i] = pRetries /\ itemCalls[i] = pRetries
        /\ \A i \in Succeeded :
             /\ itemFails[i] < pRetries
             /\ itemCalls[i] = itemFails[i] + 1
             /\ results[i] = Some(F(items[i]))
        /\ (status = "returned" /\ Exhausted = {}) =>
             /\ Succeeded = 1..Len(items)
             /\ execCalls = SumTo(itemFails, Len(items)) + Len(items)
             /\ shared[BatchResultsKey] = [i \in 1..Len(items) |-> Some(F(items[i]))]

C21_Witness ==
    /\ mode = "runBatchParallel" /\ hasExec /\ pRetries = 2
    /\ status = "returned"
    /\ itemFails = <<1, 1>> /\ execCalls = 4
    /\ shared[BatchResultsKey] = <<Some(2), Some(4)>>

\* the calls a complete single run makes, in order
PrepPart == IF hasPrep THEN <<Call("prep", Nil, Nil)>> ELSE <<>>
ExecPart == IF hasExec THEN <<Call("exec", prepResult, Nil)>> ELSE <<>>
PostPart == IF hasPost THEN <<Call("post", prepResult, Some(execResult))>> ELSE <<>>

\* C22: a single run calls prepare (if set), then execute with prepare's
\* result (nil when prepare is unset), then postprocess (if set) with
\* prepare's and execute's results, each at most once and in that order; the
\* label is postprocess's value, else the execute result as a string ("7" for
\* the integer 7), else "default" when execute is unset; when execute fails
\* the run stops fatally and postprocess is not called.
C22_SingleLifecycle ==
    mode = "runSingle" =>
        /\ prepCalls <= 1 /\ execCalls <= 1 /\ postCalls <= 1
        /\ ~hasPrep => prepResult = Nil
        /\ status = "returned" =>
             /\ callLog = PrepPart \o ExecPart \o PostPart
             /\ hasPost => label \in PostLabels
             /\ (~hasPost /\ ~hasExec) => label = "default"
             /\ (~hasPost /\ hasExec) =>
                  /\ execResult = StrVal("ok") => label = "ok"
                  /\ execResult = StrVal("") => label = ""
                  /\ execResult = IntVal(7) => label = "7"
        /\ status = "panicked" =>
             /\ hasExec /\ execFails = 1
             /\ callLog = PrepPart \o ExecPart
             /\ postCalls = 0 /\ label = ""

C22_Witness ==
    /\ mode = "runSingle" /\ status = "returned"
    /\ callLog = <<Call("prep", Nil, Nil), Call("exec", Some(2), Nil),
                   Call("post", Some(2), Some(IntVal(7)))>>
    /\ label = "posted"

\* C23: Flow.Run has a unit's Run in progress only between the loop head and
\* the return of that Run, one unit at a time; every time it moved on to the
\* next unit the Run it left had returned, and when that was a parallel batch
\* every goroutine had run to its end (the WaitGroup was back at zero) and
\* the results were stored.
C23_OneUnitAtATime ==
    /\ status # "idle" => (fstatus = "inunit" /\ curr # Nil)
    /\ Len(handoffs) = steps
    /\ \A k \in DOMAIN handoffs :
         LET h == handoffs[k]
         IN /\ h.status = "returned"
            /\ h.mode = "runBatchParallel" =>
                 /\ \A w \in DOMAIN h.workers : h.workers[w] \in {"finished", "panic_exit"}
                 /\ h.wg = 0
                 /\ h.stored

C23_Witness ==
    /\ Len(handoffs) = 1
    /\ handoffs[1].node = "n1" /\ handoffs[1].mode = "runBatchParallel"
    /\ handoffs[1].workers = <<"finished", "finished">>
    /\ fstatus = "inunit" /\ curr = Some("n2")
    /\ status = "running" /\ mode = "runBatchParallel"
    /\ \E w \in Workers : wpc[w] = "executing"

\* the step replaces the successor that n has under label a by another one
Replaced(n, a) ==
    /\ a \in DOMAIN succ[n] /\ a \in DOMAIN succ'[n]
    /\ succ'[n][a] # succ[n][a]
OverwriteWarning(a) == [kind |-> "overwrite", action |-> a]
OnlyEdgeChanged(n, a) ==
    \A m \in Nodes : \A b \in DOMAIN succ[m] :
        (m # n \/ b # a) => (b \in DOMAIN succ'[m] /\ succ'[m][b] = succ[m][b])

\* C24 as stated: every Next that replaces an existing edge leaves an overwrite
\* warning naming the label.
C24_Original ==
    [][\A n \in Nodes : \A a \in NextLabels :
          Replaced(n, a) => warnings' = Append(warnings, OverwriteWarning(a))]_vars

\* C24: Next on a label that already has a successor does not fail: the
\* construction goes on, the edge of that label is the only one that changes,
\* and an overwrite warning naming the label is delivered exactly when the
\* unit is a goflow node with a warning collector attached; without a
\* collector, and in package Flow, the edge is replaced silently.
C24_OverwriteReplaces ==
    [][\A n \in Nodes : \A a \in NextLabels :
          Replaced(n, a) =>
            /\ fstatus' = "build"
            /\ OnlyEdgeChanged(n, a)
            /\ warnings' = IF impl = "goflow" /\ n \in sinks
                           THEN Append(warnings, OverwriteWarning(a))
                           ELSE warnings]_vars

C24_Witness ==
    /\ impl = "goflow" /\ fstatus = "build"
    /\ \E n \in Nodes : \E a \in DOMAIN succ[n] :
         /\ n \in sinks
         /\ warnings = <<OverwriteWarning(a)>>

\* C25: a run of a retry unit that has returned has invoked execute as the
\* retry loop does, and the k-th invocation (k = 0, 1, ...) read k from the
\* attempt counter, in every run anew.
C25_CounterObserved ==
    gpc = "returned" =>
        /\ observed = RetryNode_exec(gcfg, 0, <<>>).observed
        /\ \A k \in DOMAIN observed : observed[k] = k - 1

\* the callers of Append, and the items of the slice the key held before
Appenders == {w \in DOMAIN gcfg.ops : gcfg.ops[w] = "Append"}
AllUnlocked == \A w \in DOMAIN gwpc : gwpc[w] = "done"
InCritical == {w \in DOMAIN gwpc : gwpc[w] \in {"locked", "read", "written"}}
AppendedTo(base) ==
    /\ ListKey \in DOMAIN shared
    /\ shared[ListKey].kind = "[]interface{}"
    /\ LET seq == shared[ListKey].val
       IN /\ Len(seq) = Len(base) + Cardinality(Appenders)
          /\ SubSeq(seq, 1, Len(base)) = base
          /\ \A w \in Appenders :
               Cardinality({i \in Len(base) + 1..Len(seq) : seq[i] = w}) = 1
SetsTookEffect ==
    \A w \in DOMAIN gcfg.ops :
        gcfg.ops[w] = "Set" =>
            (KeyOf(w) \in DOMAIN shared /\ shared[KeyOf(w)] = [kind |-> "int", val |-> w])

C27_CancelFatal ==
    (gpc = "returned" /\ execCtx = Some("done")) => gret[1].err

\* C28: ParallelBatchNode.RunAsync returns an error without calling
\* postprocess, or the label postprocess computes from a results slice with
\* one entry per item, entry i being what execute returned for item i.
C28_FullResults ==
    /\ gposted # Nil =>
         gposted[1] = [i \in 1..gcfg.n |-> itemResult(gcfg, i)]
    /\ gpc = "returned" =>
         \/ gret[1].err /\ gposted = Nil
         \/ ~gret[1].err /\ gposted # Nil /\ gret[1].label = "posted"

C28_Witness ==
    /\ gpc = "returned"
    /\ gcfg.n = 2 /\ gcfg.fails = {}
    /\ gposted = Some(<<Some(F(1)), Some(F(2))>>)
    /\ gret = Ret("posted", FALSE)

\* C29: with MaxConcurrency = L > 0 no more than L goroutines are inside
\* execute at the same time.
C29_Limit ==
    gcfg.MaxConcurrency > 0 =>
        Cardinality({i \in DOMAIN gwpc : gwpc[i] = "executing"}) <= gcfg.MaxConcurrency

\* C30: every unit executed in the traversal for batch b ran with the flow's
\* params overlaid with b's own entries, and when RunAsync returned without an
\* error every batch went through every unit of the chain exactly once.
C30_OwnParams ==
    /\ \A b \in DOMAIN gruns : \A j \in DOMAIN gruns[b] :
         gruns[b][j].params = overlay(gcfg.fparams, BatchOf(b))
    /\ (gpc = "returned" /\ ~gret[1].err) =>
         \A b \in DOMAIN gruns :
             /\ Len(gruns[b]) = gcfg.chain
             /\ \A j \in DOMAIN gruns[b] : gruns[b][j].node = j

\* ------------------------------------------------------ claims C31 - C40
\* the calls a retry run has made so far, as the code orders them
RetryCalls ==
    (IF prepCalls = 1 THEN <<Call("prep", Nil, Nil)>> ELSE <<>>)
    \o [i \in 1..execCalls |-> Call("exec", prepResult, Nil)]
    \o (IF postCalls = 1 THEN <<Call("post", prepResult, Some(execResult))>> ELSE <<>>)

\* C31: in retry mode prepare (if set) is called exactly once, before the
\* first attempt, and every attempt gets its result; postprocess (if set) is
\* called at most once, last, after the attempt that succeeded and with the
\* result of that attempt (the default label when no execute function is set),
\* and never when the retries are exhausted.
C31_RetryLifecycle ==
    mode = "runWithRetry" =>
        /\ prepCalls = (IF hasPrep /\ pc # "prep" THEN 1 ELSE 0)
        /\ ~hasPrep => prepResult = Nil
        /\ postCalls <= 1
        /\ callLog = RetryCalls
        /\ (hasExec /\ execCalls = execFails) => execResult = StrVal(DefaultAction)
        /\ postCalls = 1 =>
             /\ status = "returned"
             /\ hasExec => execCalls = execFails + 1
             /\ ~hasExec => execResult = StrVal(DefaultAction)
        /\ status = "returned" => postCalls = (IF hasPost THEN 1 ELSE 0)
        /\ status = "panicked" =>
             /\ postCalls = 0
             /\ execCalls = pRetries /\ execFails = pRetries

C31_Witness ==
    /\ mode = "runWithRetry" /\ status = "returned"
    /\ hasPrep /\ hasExec /\ hasPost
    /\ execFails = 2 /\ execCalls = 3
    /\ Len(callLog) = 5
    /\ callLog[5] = Call("post", prepResult, Some(IntVal(7)))

\* C32: a run of a retry unit with a fallback whose MaxRetries attempts all
\* fail has invoked execute MaxRetries times and returns the fallback's
\* result without failing.
C32_FallbackOnExhaustion ==
    (gpc = "returned" /\ gcfg.fallback /\ gcfg.MaxRetries >= 1
        /\ gcfg.failUntil >= gcfg.MaxRetries) =>
        /\ Len(observed) = gcfg.MaxRetries
        /\ gret = Ret(RetryNode_exec(gcfg, 0, <<>>).label, FALSE)
        /\ gret[1].label = "fallback"

\* the first failing item of the batch, or 0
FirstFail == IF gcfg.fails = {} THEN 0
             ELSE CHOOSE i \in gcfg.fails : \A j \in gcfg.fails : i <= j

\* C33: BatchNode.Run invokes execute on the items in input order; with
\* stop-on-error off a failing item leaves nil at its position and the loop
\* goes on, so postprocess gets one entry per item, entry i for item i; with
\* stop-on-error on the first failing item ends the run fatally, execute is
\* not invoked for a later item and postprocess is not called.
C33_BatchNodeErrors ==
    gpc # "idle" =>
        /\ observed = SubSeq(gitems, 1, Len(observed))
        /\ gposted # Nil =>
             /\ Len(gposted[1]) = gcfg.n
             /\ gposted[1] = [i \in 1..gcfg.n |-> itemResult(gcfg, i)]
        /\ gpc = "returned" =>
             /\ Len(observed) = gcfg.n
             /\ gcfg.hasPost <=> gposted # Nil
        /\ (gcfg.stopOnError /\ FirstFail > 0) =>
             /\ Len(observed) <= FirstFail
             /\ gpc \in {"loop", "panic"}
             /\ gposted = Nil
        /\ gpc = "panic" =>
             /\ gcfg.stopOnError /\ FirstFail > 0
             /\ Len(observed) = FirstFail
        /\ ~gcfg.stopOnError => gpc # "panic"

C33_Witness ==
    /\ gpc = "returned"
    /\ ~gcfg.stopOnError /\ gcfg.n = 2 /\ gcfg.fails = {1}
    /\ gposted = Some(<<Nil, Some(F(2))>>)

\* the successor graph: edges whatever their label, and the nodes reachable
\* from a set of nodes in at most k steps
Edge(a, b) == \E l \in DOMAIN succ[a] : succ[a][l] = b
RECURSIVE ReachIn(_, _)
ReachIn(S, k) ==
    IF k = 0 THEN S
    ELSE ReachIn(S \cup {b \in Nodes : \E a \in S : Edge(a, b)}, k - 1)
Acyclic ==
    \A n \in Nodes : n \notin ReachIn({b \in Nodes : Edge(n, b)}, Cardinality(Nodes))
nextOf(n, l) ==
    IF impl = "Flow" THEN getNextNode(succ[n], l) ELSE goflowGetNextNode(succ[n], l)
LoopSafe ==
    /\ fstatus = "returned" =>
         /\ curr = Nil
         /\ ran # Nil => nextOf(ranNode, ranLabel) = Nil
    /\ (fstatus = "running" /\ ran # Nil) => curr = nextOf(ranNode, ranLabel)
    /\ Acyclic =>
         \A i, j \in DOMAIN trace : trace[i].node = trace[j].node => i = j

\* C34: Flow.Run returns only when the label of the unit that ran last leads
\* to no successor, and as long as a successor is found the next unit runs,
\* however often a unit has run before; on an acyclic successor graph no
\* unit runs twice and every call of Run returns.
C34_TerminatesIffNoSuccessor ==
    /\ []LoopSafe
    /\ (fstatus = "running" /\ Acyclic) ~> (fstatus = "returned")

\* a unit running for the third time in one call of Run, a successor waiting
C34_Witness ==
    /\ fstatus = "running" /\ curr # Nil
    /\ ~Acyclic
    /\ Len(trace) = 3
    /\ trace[1].node = trace[2].node /\ trace[2].node = trace[3].node

\* what holds of the attempts of AsyncRetryNode.RunAsync in every state
AsyncRetrySafe ==
    /\ Len(observed) <= gcfg.MaxRetries
    /\ \A k \in DOMAIN observed : observed[k] = k - 1
    /\ Len(observed) <= gcfg.failUntil + 1
    /\ gpc = "wait" => (gcfg.delay /\ Len(observed) >= 1 /\ Len(observed) < gcfg.MaxRetries)
    /\ gpc = "returned" =>
         /\ gret[1].cause = "none" =>
              \/ gret[1].label = "success" /\ Len(observed) = gcfg.failUntil + 1
              \/ /\ gret[1].label = "fallback" /\ gcfg.fallback
                 /\ Len(observed) = gcfg.MaxRetries /\ gcfg.failUntil >= gcfg.MaxRetries
         /\ gret[1].cause = "ctx" => (gctx = "done" /\ gcfg.delay)
         /\ gret[1].cause = "exec" =>
              (Len(observed) = gcfg.MaxRetries /\ gcfg.failUntil >= gcfg.MaxRetries)
\* what holds of every step: a failed attempt that is not the last is followed
\* by the wait when RetryDelay > 0, and the wait ends in the next attempt or,
\* when the context is done, in the return of the context's error
AsyncRetryStep ==
    /\ (Len(observed') > Len(observed) /\ gpc' # "returned" /\ gcfg.delay) => gpc' = "wait"
    /\ (gpc = "wait" /\ gpc' # "wait") =>
         IF gctx = "done"
         THEN gpc' = "returned" /\ gret' = RetBy("", "ctx") /\ observed' = observed
         ELSE gpc' = "attempt" /\ observed' = observed
    /\ gpc = "returned" => (gpc' = "returned" /\ observed' = observed /\ gret' = gret)

\* C35: AsyncRetryNode.RunAsync makes at most MaxRetries attempts and none
\* after the first success; with RetryDelay > 0 it waits after every failed
\* attempt that is followed by another; a context that is done during the
\* wait makes RunAsync return the context's error with no further attempt.
C35_AsyncRetry ==
    /\ []AsyncRetrySafe
    /\ [][AsyncRetryStep]_vars

C35_Witness ==
    /\ gpc = "returned"
    /\ gret = RetBy("", "ctx")
    /\ gcfg.MaxRetries = 3 /\ gcfg.failUntil = 2
    /\ observed = <<0, 1>>

BatchMode == mode \in {"runBatchSequential", "runBatchParallel"}

\* C36: in batch mode, sequential or parallel, prepare and postprocess are
\* never invoked, whether they are set or not, and a run that returns gives
\* the batch-completion label.
C36_BatchSkipsPrepPost ==
    BatchMode =>
        /\ prepCalls = 0 /\ postCalls = 0
        /\ prepResult = Nil
        /\ callLog = <<>>
        /\ status = "returned" => label = BatchCompleteAction

C36_Witness ==
    /\ mode = "runBatchParallel" /\ status = "returned"
    /\ hasPrep /\ hasPost /\ hasExec
    /\ Len(items) = 2
    /\ label = BatchCompleteAction

\* C37: a batch-mode run that returned the batch-completion label has stored
\* one entry per input item under the batch-results key, with or without an
\* execute function.
C37_OneEntryPerItem ==
    (BatchMode /\ status = "returned" /\ label = BatchCompleteAction) =>
        /\ Stored
        /\ Len(shared[BatchResultsKey]) = Len(items)

\* an execute invocation has failed for good: its goroutine panics
FailedForGood == \E w \in Workers : wpc[w] \in {"panic_release", "panic_wgdone", "panic_exit"}

\* the workers that hold a slot of the semaphore
Holding == {w \in Workers : wpc[w] \in {"executing", "release", "panic_release"}}

SlotsSafe ==
    /\ sem = Cardinality(Holding)
    /\ status = "running" => sem <= limit
    /\ (status = "returned" /\ ~FailedForGood) =>
           /\ sem = 0
           /\ \A w \in Workers : wpc[w] = "finished"

\* C38: unless an execute invocation fails for good, a parallel-batch Run
\* returns; every worker waiting for a slot gets one, a worker holds its slot
\* from the acquisition through its retries until its item is done, every
\* slot is given back, and none is held when Run returns.
C38_ParallelBatchTerminates ==
    /\ []SlotsSafe
    /\ (status = "running") ~> (status = "returned" \/ FailedForGood)
    /\ \A w \in 1..MaxItems :
         (w \in Workers /\ wpc[w] = "acquire") ~> (w \in Holding \/ FailedForGood)
    /\ \A w \in 1..MaxItems :
         (w \in Holding) ~> (w \notin Holding \/ FailedForGood)

C38_Witness ==
    /\ status = "returned" /\ ~FailedForGood
    /\ Len(items) = 2 /\ limit = 1
    /\ hasExec /\ execFails > 0
    /\ sem = 0

\* what a batch run over its items produces: one result per item in input
\* order, from a unit with an execute function
RunResults == [i \in 1..Len(items) |-> Some(F(items[i]))]

\* the only write of the batch machinery: the key is set to the locals of
\* the run that returns, every other key stays as it is
BatchWrite ==
    shared' # shared =>
        /\ status' = "returned" /\ label' = BatchCompleteAction
        /\ BatchResultsKey \in DOMAIN shared'
        /\ shared'[BatchResultsKey] = results
        /\ DOMAIN shared' = DOMAIN shared \cup {BatchResultsKey}
        /\ \A k \in DOMAIN shared \ {BatchResultsKey} : shared'[k] = shared[k]

RerunReplaces ==
    (status = "returned" /\ ~FailedForGood /\ hasExec) =>
        /\ Stored
        /\ shared[BatchResultsKey] = RunResults

\* C39: a successful batch run leaves under the batch-results key the results
\* of that run only, also when an earlier run on the same SharedState stored
\* its own, and the batch machinery writes no other key.
C39_ResultsReplaced == []RerunReplaces /\ [][BatchWrite]_vars

C39_Witness ==
    /\ steps = 1 /\ status = "returned" /\ hasExec
    /\ handoffs[1].stored = <<Some(2), Some(4)>>
    /\ Len(items) = 1
    /\ shared = (BatchResultsKey :> <<Some(2)>>) @@ (UserKey :> 1)

\* where goroutine w of RunAsync stands
WorkerPc(w) == IF OnParallelBatchFlow THEN gwpc[w].pc ELSE gwpc[w]
Sending == {w \in DOMAIN gwpc : WorkerPc(w) \in {"send_err", "send_nil"}}
Sent == {w \in DOMAIN gwpc : WorkerPc(w) = "done"}

\* the capacity errCh was made with
ErrChCap == errChCap(IF OnParallelBatchFlow THEN gcfg.n ELSE Len(gitems))

\* RunAsync has returned the first error it received
EarlyReturn == gpc = "returned" /\ gret = Ret("", TRUE) /\ gwpc # <<>>

\* the messages the receiving loop has taken out of errCh
Received == grecv + (IF EarlyReturn THEN 1 ELSE 0)

SendSafe ==
    gwpc # <<>> =>
        /\ ErrChCap = Cardinality(DOMAIN gwpc)
        /\ Len(errCh) + Received = Cardinality(Sent)
        /\ Len(errCh) <= ErrChCap
        /\ Sending # {} => canSend(errCh, ErrChCap)

\* C40: errCh has one place per goroutine and every goroutine sends one
\* message, so a goroutine ready to send always finds room and every
\* goroutine comes to its end, also after RunAsync has returned early.
C40_SendsNeverBlock ==
    /\ []SendSafe
    /\ (gpc # "idle") ~> (DOMAIN gwpc = Sent)
    /\ EarlyReturn ~> (EarlyReturn /\ DOMAIN gwpc = Sent)

C40_Witness ==
    /\ OnParallelBatchNode
    /\ EarlyReturn
    /\ Cardinality(DOMAIN gwpc) = 2
    /\ DOMAIN gwpc = Sent
    /\ Len(errCh) = 1

====
